---- MODULE Spec2Model ----
(***************************************************************************)
(* KeySight: the encrypted hash-linked ledger (SecureStorage) as a state   *)
(* machine.  Every async method is split at its await points; the code     *)
(* between two awaits is one atomic action (single-threaded cooperative    *)
(* scheduling).  Cryptography is symbolic: a hash is an injective tag, an   *)
(* AES-GCM blob remembers the key, the nonce and the plaintext, and         *)
(* authenticated decryption succeeds only under the key that encrypted.     *)
(***************************************************************************)
EXTENDS Integers, Sequences, FiniteSets, TLC

\* ---------------------------------------------------------------- bounds
MaxCalls == 2
MaxBlocks == 3
MaxBrowserBlocks == 4
\* Seconds of a session, counted down by the App's timer.
SESSION_TIMEOUT == 3
MaxTime == 1
MaxViolations == 1
MaxScans == 2
MaxNodes == 1
MaxPending == 1

\* ------------------------------------------------------------ input sets
Passphrases == {"INITIAL_KEY_DERIVATION", "OTHER_PASSPHRASE"}
Users == {"admin_user"}
IVs == {"iv_a", "iv_b"}
RandomTokens == {"r_a"}
Targets == {0, 1, 2}
Slots == 1..MaxCalls
Indices == 0..MaxBlocks

VARIABLES chain, encryptionKey, storage, calls, now, serialized, event, returned,
          observed, localStorage, app, prompt, login, scanner, browser

vars == <<chain, encryptionKey, storage, calls, now, serialized, event, returned,
          observed, localStorage, app, prompt, login, scanner, browser>>
\* The browser's localStorage and the state of the React components.
uiVars == <<localStorage, app, prompt, login, scanner, browser>>

\* ------------------------------------------------------------- JS values
Undefined == [k |-> "undefined"]
Null == [k |-> "null"]
Num(n) == [k |-> "number", n |-> n]
Str(chars) == [k |-> "string", chars |-> chars]
Obj(fields) == [k |-> "object", f |-> fields]

\* Character sequences: either the JSON text of a value or other characters.
RawChars(s) == [raw |-> s]
JSONstringify(v) == [json |-> v]
JSONparseThrows(text) == "json" \notin DOMAIN text
JSONparse(text) == text.json

\* JavaScript truthiness of a value (if (content), && content.targetIndex).
Truthy(v) ==
    CASE v.k = "undefined" -> FALSE
      [] v.k = "null" -> FALSE
      [] v.k = "number" -> v.n # 0
      [] v.k = "string" -> v.chars # RawChars("")
      [] OTHER -> TRUE

HasField(v, name) == v.k = "object" /\ name \in DOMAIN v.f

\* ---------------------------------------------------------- cryptography
sha256(text) == [sha256 |-> text]

NoKey == <<>>
Salt == "KEYSIGHT_LOCAL_SALT"
DeriveKeyIgnoringPassphrase(masterKey) == <<"AES-GCM", "PBKDF2", Salt, "masterKey">>
DeriveKey(masterKey) == <<"AES-GCM", "PBKDF2", Salt, masterKey>>

\* IV ++ AES-GCM ciphertext of the text under the key.
Encrypt(key, iv, text) == [key |-> key, iv |-> iv, plaintext |-> text]
AuthFailsNever(key, blob) == FALSE
AuthFails(key, blob) == blob.key # key

\* getKey(): throws when the key is falsy.
KeyMissingNever(key) == FALSE
KeyMissing(key) == key = NoKey

\* --------------------------------------------------------------- records
Evidence == Obj([type |-> "EVIDENCE_SNAPSHOT", cameraId |-> "cam_01"])
PlainString == Str(RawChars("motion at gate"))
ZeroString == Str(JSONstringify(Num(0)))
Records == {Evidence, PlainString, ZeroString}

\* Interleavings are explored with one record and one target; the variety of
\* records is explored by the caller that awaits every call.
PassphraseInputs == IF serialized THEN Passphrases ELSE {"INITIAL_KEY_DERIVATION"}
RecordInputs == IF serialized THEN Records ELSE {Evidence}
TargetInputs == IF serialized THEN Targets ELSE {1}

SemanticRecord(type, verb, targetBlockIndex, user, t) ==
    Obj([type |-> type, targetIndex |-> targetBlockIndex, timestamp |-> t,
         user |-> user, description |-> <<verb, user>>])
LockRecord(targetBlockIndex, user, t) ==
    SemanticRecord("LOCK_EVIDENCE", "Evidence locked by ", targetBlockIndex, user, t)
UnlockRecord(targetBlockIndex, user, t) ==
    SemanticRecord("UNLOCK_EVIDENCE", "Evidence unlocked by ", targetBlockIndex, user, t)
TombstoneRecord(targetBlockIndex, user, t) ==
    SemanticRecord("TOMBSTONE", "Item deleted by ", targetBlockIndex, user, t)

\* const dataString = typeof data === 'string' ? data : JSON.stringify(data)
DataString(data) == IF data.k = "string" THEN data.chars ELSE JSONstringify(data)

\* ---------------------------------------------------------------- blocks
GenesisBlock(t) ==
    [index |-> 0,
     previousHash |-> RawChars("00000000000000000000000000000000"),
     timestamp |-> t,
     dataHash |-> RawChars("GENESIS_BLOCK"),
     signature |-> RawChars("SYSTEM_INIT")]

LinkHashOfDataHash(prevBlock) == sha256(JSONstringify(prevBlock.dataHash))
LinkHash(prevBlock) == sha256(JSONstringify(prevBlock))

NewBlock(newIndex, prevBlock, dataHash, t, r) ==
    [index |-> newIndex,
     previousHash |-> LinkHash(prevBlock),
     timestamp |-> t,
     dataHash |-> dataHash,
     signature |-> [sig |-> <<t, r>>]]

\* chain.push(block)
ChainAssignAtIndex(c, block) ==
    [i \in 1..(IF Len(c) > block.index + 1 THEN Len(c) ELSE block.index + 1) |->
        IF i = block.index + 1 THEN block ELSE c[i]]
ChainPush(c, block) == Append(c, block)

GetChainLength == Len(chain)

LastBlock(c) == IF Len(c) = 0 THEN Undefined ELSE c[Len(c)]

\* Map.set on the payload store.
MapSetClearing(m, key, val) == [i \in {key} |-> val]
MapSetDropping(m, key, val) == m
MapSet(m, key, val) == [i \in DOMAIN m \cup {key} |-> IF i = key THEN val ELSE m[i]]

\* ----------------------------------------------------------------- calls
Idle == [op |-> "idle"]
NoEvent == [op |-> "none", ev |-> "none", called |-> FALSE]

IdleSlots == {c \in Slots : calls[c] = Idle}
FreeSlot == CHOOSE c \in IdleSlots : \A d \in IdleSlots : c <= d
PendingAppends == Cardinality({c \in Slots : calls[c].op = "append"})

\* A caller that awaits every call issues the next one only when none is pending.
CanIssue == IdleSlots # {} /\ (serialized => IdleSlots = Slots)
\* The chain may grow by one more block where the storage browser is shown:
\* its scenarios need an item, a lock record and a tombstone after the genesis.
BlockLimit == IF browser.mounted THEN MaxBrowserBlocks ELSE MaxBlocks
CanGrow == Len(chain) + PendingAppends < BlockLimit

\* A caller may keep one earlier result of getAllItems() to compare later
\* results with.
NotObserving == [recording |-> FALSE, seen |-> <<>>]
Observing == [recording |-> TRUE, seen |-> <<>>]

\* The components as mounted by the first render, on a browser profile
\* that holds no master key yet.
EmptyLocalStorage == [keysight_master_hash |-> Null, keysight_device_bind |-> Null]
AppMounted == [view |-> "LOGIN", isStorageAuthOpen |-> FALSE, sessionTime |-> 0]
AuthenticatedViews == {"DASHBOARD", "STORAGE", "SCANNER"}
\* The App as it is once a view other than LOGIN is shown.
AppInView(view) ==
    [AppMounted EXCEPT !.view = view,
                       !.sessionTime = IF view \in AuthenticatedViews
                                       THEN SESSION_TIMEOUT ELSE 0]
PromptMounted == [inputKey |-> <<>>, error |-> <<>>, pending |-> {}]
LoginMounted ==
    [mode |-> "LOADING", inputKey |-> <<>>, generatedKey |-> <<>>, error |-> <<>>,
     pending |-> {}]
ScannerMounted ==
    [isScanning |-> FALSE, scanError |-> Null, aborted |-> FALSE, scans |-> {},
     probed |-> {}]
\* The storage browser is rendered only in the STORAGE view; its state as
\* created by useState, before its mount effect has run.
BrowserUnmounted ==
    [mounted |-> FALSE, items |-> <<>>, loading |-> TRUE, selectedIds |-> {},
     isProcessing |-> FALSE, pending |-> {}]
InitUI ==
    /\ localStorage = EmptyLocalStorage
    /\ app = AppMounted
    /\ prompt = PromptMounted
    /\ login = LoginMounted
    /\ scanner = ScannerMounted
    /\ browser = BrowserUnmounted

Init ==
    /\ chain = <<>>
    /\ encryptionKey = NoKey
    /\ storage = <<>>
    /\ calls = [c \in Slots |-> Idle]
    /\ now = 0
    /\ serialized = FALSE
    /\ event = NoEvent
    /\ returned = {}
    /\ observed = NotObserving
    /\ InitUI

InitSeq ==
    /\ chain = <<>>
    /\ encryptionKey = NoKey
    /\ storage = <<>>
    /\ calls = [c \in Slots |-> Idle]
    /\ now = 0
    /\ serialized = TRUE
    /\ event = NoEvent
    /\ returned = {}
    /\ observed = NotObserving
    /\ InitUI

\* Date.now() advances between steps.
Tick ==
    /\ now < MaxTime
    /\ now' = now + 1
    /\ event' = NoEvent
    /\ UNCHANGED <<chain, encryptionKey, storage, calls, serialized, returned, observed, uiVars>>

\* ------------------------------------------------------------ initialize
CallInitialize(masterKey) ==
    /\ CanIssue
    /\ calls' = [calls EXCEPT ![FreeSlot] =
                    [op |-> "initialize", pc |-> "importKey", masterKey |-> masterKey]]
    /\ event' = [op |-> "initialize", ev |-> "suspend", called |-> TRUE]
    /\ UNCHANGED <<chain, encryptionKey, storage, now, serialized, returned, observed, uiVars>>

InitializeImported(c) ==
    /\ calls[c].op = "initialize" /\ calls[c].pc = "importKey"
    /\ calls' = [calls EXCEPT ![c].pc = "deriveKey"]
    /\ event' = [op |-> "initialize", ev |-> "resume", called |-> FALSE]
    /\ UNCHANGED <<chain, encryptionKey, storage, now, serialized, returned, observed, uiVars>>

\* if (this.chain.length === 0)
ChainIsEmptyAlways(c) == TRUE
ChainIsEmpty(c) == Len(c) = 0

InitializeDerived(c) ==
    /\ calls[c].op = "initialize" /\ calls[c].pc = "deriveKey"
    /\ encryptionKey' = DeriveKey(calls[c].masterKey)
    /\ chain' = IF ChainIsEmpty(chain) THEN ChainPush(chain, GenesisBlock(now)) ELSE chain
    /\ calls' = [calls EXCEPT ![c] = Idle]
    /\ event' = [op |-> "initialize", ev |-> "return", called |-> FALSE,
                 masterKey |-> calls[c].masterKey, value |-> TRUE]
    /\ UNCHANGED <<storage, now, serialized, returned, observed, uiVars>>

\* ---------------------------------------------------------------- append
\* via: "append" for a direct call, or the helper that wraps it.
StartAppend(via, data) ==
    /\ CanIssue
    /\ IF KeyMissing(encryptionKey)
       THEN /\ event' = [op |-> "append", via |-> via, ev |-> "raise", called |-> TRUE,
                         error |-> "Storage locked: Encryption key not initialized"]
            /\ UNCHANGED calls
       ELSE /\ CanGrow
            /\ calls' = [calls EXCEPT ![FreeSlot] =
                            [op |-> "append", via |-> via, pc |-> "sha256",
                             key |-> encryptionKey, prevBlock |-> LastBlock(chain),
                             data |-> data, dataString |-> DataString(data)]]
            /\ event' = [op |-> "append", via |-> via, ev |-> "suspend", called |-> TRUE]
    /\ UNCHANGED <<chain, encryptionKey, storage, now, serialized, returned, observed, uiVars>>

CallAppend(data) == StartAppend("append", data)
CallLockItem(targetBlockIndex, user) ==
    StartAppend("lockItem", LockRecord(targetBlockIndex, user, now))
CallUnlockItem(targetBlockIndex, user) ==
    StartAppend("unlockItem", UnlockRecord(targetBlockIndex, user, now))
CallDeleteItem(targetBlockIndex, user) ==
    StartAppend("deleteItem", TombstoneRecord(targetBlockIndex, user, now))

\* dataHash resolved; the IV is drawn and encryption starts.
AppendHashed(c, iv) ==
    /\ calls[c].op = "append" /\ calls[c].pc = "sha256"
    /\ calls' = [calls EXCEPT ![c] =
                    [op |-> "append", via |-> calls[c].via, pc |-> "encrypt",
                     key |-> calls[c].key, prevBlock |-> calls[c].prevBlock,
                     data |-> calls[c].data, dataString |-> calls[c].dataString,
                     dataHash |-> sha256(calls[c].dataString), iv |-> iv]]
    /\ event' = [op |-> "append", via |-> calls[c].via, ev |-> "resume", called |-> FALSE]
    /\ UNCHANGED <<chain, encryptionKey, storage, now, serialized, returned, observed, uiVars>>

\* ciphertext resolved; the blob is stored under prevBlock.index + 1.
AppendEncrypted(c) ==
    /\ calls[c].op = "append" /\ calls[c].pc = "encrypt"
    /\ IF calls[c].prevBlock = Undefined
       THEN /\ calls' = [calls EXCEPT ![c] = Idle]
            /\ event' = [op |-> "append", via |-> calls[c].via, ev |-> "raise",
                         called |-> FALSE, error |-> "TypeError"]
            /\ UNCHANGED storage
       ELSE /\ storage' = MapSet(storage, calls[c].prevBlock.index + 1,
                                 Encrypt(calls[c].key, calls[c].iv, calls[c].dataString))
            /\ calls' = [calls EXCEPT ![c] =
                            [op |-> "append", via |-> calls[c].via, pc |-> "link",
                             key |-> calls[c].key, prevBlock |-> calls[c].prevBlock,
                             data |-> calls[c].data, dataHash |-> calls[c].dataHash,
                             newIndex |-> calls[c].prevBlock.index + 1]]
            /\ event' = [op |-> "append", via |-> calls[c].via, ev |-> "resume",
                         called |-> FALSE]
    /\ UNCHANGED <<chain, encryptionKey, now, serialized, returned, observed, uiVars>>

\* previousHash resolved; the block is built, pushed and returned.
AppendLinked(c, r) ==
    /\ calls[c].op = "append" /\ calls[c].pc = "link"
    /\ LET newBlock == NewBlock(calls[c].newIndex, calls[c].prevBlock,
                                calls[c].dataHash, now, r)
       IN /\ chain' = ChainPush(chain, newBlock)
          /\ event' = [op |-> "append", via |-> calls[c].via, ev |-> "return",
                       called |-> FALSE, data |-> calls[c].data, block |-> newBlock,
                       value |-> IF calls[c].via = "append" THEN newBlock ELSE TRUE]
          /\ returned' = returned \cup
                 {[block |-> newBlock, data |-> calls[c].data, key |-> calls[c].key]}
    /\ calls' = [calls EXCEPT ![c] = Idle]
    /\ UNCHANGED <<encryptionKey, storage, now, serialized, observed, uiVars>>

\* --------------------------------------------------------------- decrypt
StorageGet(m, index) == IF index \in DOMAIN m THEN <<m[index]>> ELSE <<>>

\* The body of the try block: what it returns, or that it threw.
TryDecrypt(key, encryptedData) ==
    IF KeyMissing(key) THEN [threw |-> TRUE, value |-> Undefined]
    ELSE IF encryptedData = <<>> THEN [threw |-> FALSE, value |-> Null]
    ELSE IF AuthFails(key, encryptedData[1]) THEN [threw |-> TRUE, value |-> Undefined]
    ELSE IF JSONparseThrows(encryptedData[1].plaintext)
         THEN [threw |-> TRUE, value |-> Undefined]
    ELSE [threw |-> FALSE, value |-> JSONparse(encryptedData[1].plaintext)]

\* catch (e) { console.error(...); return null; }
CatchReturnsNull(result) ==
    IF result.threw THEN [threw |-> FALSE, value |-> Null] ELSE result

DecryptResult(key, encryptedData) == CatchReturnsNull(TryDecrypt(key, encryptedData))

\* Whether decrypt reaches its await (key present and payload found).
DecryptSuspends(key, encryptedData) == ~KeyMissing(key) /\ encryptedData # <<>>

DecryptEvent(index, key, encryptedData, atCall) ==
    LET result == DecryptResult(key, encryptedData)
    IN [op |-> "decrypt", ev |-> IF result.threw THEN "raise" ELSE "return",
        called |-> atCall, index |-> index, key |-> key,
        encryptedData |-> encryptedData, value |-> result.value]

CallDecrypt(index) ==
    /\ CanIssue
    /\ LET encryptedData == StorageGet(storage, index)
       IN IF DecryptSuspends(encryptionKey, encryptedData)
          THEN /\ calls' = [calls EXCEPT ![FreeSlot] =
                               [op |-> "decrypt", index |-> index, key |-> encryptionKey,
                                encryptedData |-> encryptedData]]
               /\ event' = [op |-> "decrypt", ev |-> "suspend", called |-> TRUE]
          ELSE /\ event' = DecryptEvent(index, encryptionKey, encryptedData, TRUE)
               /\ UNCHANGED calls
    /\ UNCHANGED <<chain, encryptionKey, storage, now, serialized, returned, observed, uiVars>>

DecryptDone(c) ==
    /\ calls[c].op = "decrypt"
    /\ event' = DecryptEvent(calls[c].index, calls[c].key, calls[c].encryptedData, FALSE)
    /\ calls' = [calls EXCEPT ![c] = Idle]
    /\ UNCHANGED <<chain, encryptionKey, storage, now, serialized, returned, observed, uiVars>>

\* ----------------------------------------------------------- getAllItems
RECURSIVE Reverse(_)
Reverse(s) == IF s = <<>> THEN <<>> ELSE Append(Reverse(Tail(s)), Head(s))

\* Map.set on rawItems: a present key keeps its position.
RawItemsSetEvidenceOnly(rawItems, item) ==
    IF HasField(item.content, "targetIndex") THEN rawItems ELSE Append(rawItems, item)
RawItemsPush(rawItems, item) == Append(rawItems, item)
RawItemsSet(rawItems, item) ==
    IF \E p \in 1..Len(rawItems) : rawItems[p]._blockIndex = item._blockIndex
    THEN [p \in 1..Len(rawItems) |->
             IF rawItems[p]._blockIndex = item._blockIndex THEN item ELSE rawItems[p]]
    ELSE Append(rawItems, item)

\* content.type === type && content.targetIndex
RecordTargets(content, type) ==
    /\ HasField(content, "type") /\ content.f.type = type
    /\ HasField(content, "targetIndex") /\ content.f.targetIndex # 0

\* if (content): whether the decrypted content is kept.
ContentKept(content) == Truthy(content)

\* One iteration of the replay loop, after decrypt(block.index) resolved.
Replay(st, block, content) ==
    IF ~ContentKept(content) THEN st
    ELSE LET item == [_blockIndex |-> block.index, _blockHash |-> block.dataHash,
                      _timestamp |-> block.timestamp, content |-> content]
         IN [rawItems |-> RawItemsSet(st.rawItems, item),
             locks |-> IF RecordTargets(content, "LOCK_EVIDENCE")
                       THEN st.locks \cup {content.f.targetIndex}
                       ELSE IF RecordTargets(content, "UNLOCK_EVIDENCE")
                       THEN st.locks \ {content.f.targetIndex}
                       ELSE st.locks,
             deletions |-> IF RecordTargets(content, "TOMBSTONE")
                           THEN st.deletions \cup {content.f.targetIndex}
                           ELSE st.deletions]

DecorateNeverLocked(item, locks) ==
    [_blockIndex |-> item._blockIndex, _blockHash |-> item._blockHash,
     _timestamp |-> item._timestamp, content |-> item.content,
     locked |-> FALSE]
Decorate(item, locks) ==
    [_blockIndex |-> item._blockIndex, _blockHash |-> item._blockHash,
     _timestamp |-> item._timestamp, content |-> item.content,
     locked |-> item._blockIndex \in locks]

DecorateAll(rawItems, locks, deletions) ==
    [p \in 1..Len(rawItems) |-> Decorate(rawItems[p], locks)]
RECURSIVE FilterAndDecorate(_, _, _)
FilterAndDecorate(rawItems, locks, deletions) ==
    IF rawItems = <<>> THEN <<>>
    ELSE IF Head(rawItems)._blockIndex \in deletions
         THEN FilterAndDecorate(Tail(rawItems), locks, deletions)
         ELSE <<Decorate(Head(rawItems), locks)>>
                  \o FilterAndDecorate(Tail(rawItems), locks, deletions)

MaterializeReversingInPlace(st) ==
    IF observed.seen = <<>>
    THEN Reverse(FilterAndDecorate(st.rawItems, st.locks, st.deletions))
    ELSE FilterAndDecorate(st.rawItems, st.locks, st.deletions)
Materialize(st) == Reverse(FilterAndDecorate(st.rawItems, st.locks, st.deletions))

EmptyReplayKeepingLast ==
    IF event.op = "getAllItems" /\ event.ev = "return"
    THEN event.st
    ELSE [rawItems |-> <<>>, locks |-> {}, deletions |-> {}]
\* const rawItems = new Map(); const locks = new Set(); const deletions = new Set()
EmptyReplay == [rawItems |-> <<>>, locks |-> {}, deletions |-> {}]

\* What the caller keeps: the result, the key and the chain length at return.
Snapshot(st) ==
    [key |-> encryptionKey, length |-> Len(chain), value |-> Materialize(st),
     deletions |-> st.deletions]
Remember(st) ==
    IF observed.recording /\ observed.seen = <<>>
    THEN {observed, [recording |-> TRUE, seen |-> <<Snapshot(st)>>]}
    ELSE {observed}

\* Loop head at JS position i: either decrypt(chain[i].index) is started and
\* awaited, or the loop ends and the result is returned. The call remembers
\* the chain length it started with.
LoopHead(c, i, st, atCall) ==
    IF i < Len(chain)
    THEN /\ calls' = [calls EXCEPT ![c] =
                         [op |-> "getAllItems", i |-> i, block |-> chain[i + 1],
                          key |-> encryptionKey,
                          encryptedData |-> StorageGet(storage, chain[i + 1].index),
                          st |-> st,
                          started |-> IF atCall THEN Len(chain) ELSE calls[c].started]]
         /\ event' = [op |-> "getAllItems", ev |-> IF atCall THEN "suspend" ELSE "resume",
                      called |-> atCall]
         /\ UNCHANGED observed
    ELSE /\ calls' = [calls EXCEPT ![c] = Idle]
         /\ event' = [op |-> "getAllItems", ev |-> "return", called |-> atCall,
                      value |-> Materialize(st), st |-> st,
                      started |-> IF atCall THEN Len(chain) ELSE calls[c].started]
         /\ observed' \in Remember(st)

\* StorageBrowser.loadData, the timer callback after its await:
\* const all = await secureStorage.getAllItems(); setItems(all); setLoading(false)
LoadRead(c) == [kind |-> "loadRead", slot |-> c]
ItemsLoaded(c, ev) ==
    IF LoadRead(c) \notin browser.pending THEN browser
    ELSE IF ev.ev = "return"
    THEN [browser EXCEPT !.items = ev.value, !.loading = FALSE,
                         !.pending = @ \ {LoadRead(c)}]
    ELSE IF ev.ev = "raise" THEN [browser EXCEPT !.pending = @ \ {LoadRead(c)}]
    ELSE browser

CallGetAllItems ==
    /\ CanIssue
    /\ LoopHead(FreeSlot, 1, EmptyReplay, TRUE)
    /\ UNCHANGED <<chain, encryptionKey, storage, now, serialized, returned, uiVars>>

GetAllItemsStep(c) ==
    /\ calls[c].op = "getAllItems"
    /\ LET result == DecryptResult(calls[c].key, calls[c].encryptedData)
       IN IF result.threw
          THEN /\ calls' = [calls EXCEPT ![c] = Idle]
               /\ event' = [op |-> "getAllItems", ev |-> "raise", called |-> FALSE]
               /\ UNCHANGED observed
          ELSE LoopHead(c, calls[c].i + 1,
                        Replay(calls[c].st, calls[c].block, result.value), FALSE)
    /\ browser' = ItemsLoaded(c, event')
    /\ UNCHANGED <<chain, encryptionKey, storage, now, serialized, returned,
                   localStorage, app, prompt, login, scanner>>

Next ==
    \/ Tick
    \/ \E masterKey \in PassphraseInputs : CallInitialize(masterKey)
    \/ \E c \in Slots : InitializeImported(c)
    \/ \E c \in Slots : InitializeDerived(c)
    \/ \E data \in RecordInputs : CallAppend(data)
    \/ \E t \in TargetInputs, u \in Users : CallLockItem(t, u)
    \/ \E t \in TargetInputs, u \in Users : CallUnlockItem(t, u)
    \/ \E t \in TargetInputs, u \in Users : CallDeleteItem(t, u)
    \/ \E c \in Slots, iv \in IVs : AppendHashed(c, iv)
    \/ \E c \in Slots : AppendEncrypted(c)
    \/ \E c \in Slots, r \in RandomTokens : AppendLinked(c, r)
    \/ \E index \in Indices : CallDecrypt(index)
    \/ \E c \in Slots : DecryptDone(c)
    \/ CallGetAllItems
    \/ \E c \in Slots : GetAllItemsStep(c)

Spec == Init /\ [][Next]_vars
SpecSeq == InitSeq /\ [][Next]_vars

\* The awaiting caller again, now comparing results of getAllItems(): the
\* clock and the nonce are held fixed and decrypt is reached through
\* getAllItems only.
InitReplay ==
    /\ chain = <<>>
    /\ encryptionKey = NoKey
    /\ storage = <<>>
    /\ calls = [c \in Slots |-> Idle]
    /\ now = 0
    /\ serialized = TRUE
    /\ event = NoEvent
    /\ returned = {}
    /\ observed = Observing
    /\ InitUI

NextReplay ==
    \/ \E masterKey \in Passphrases : CallInitialize(masterKey)
    \/ \E c \in Slots : InitializeImported(c)
    \/ \E c \in Slots : InitializeDerived(c)
    \/ \E data \in Records : CallAppend(data)
    \/ \E t \in Targets, u \in Users : CallLockItem(t, u)
    \/ \E t \in Targets, u \in Users : CallUnlockItem(t, u)
    \/ \E t \in Targets, u \in Users : CallDeleteItem(t, u)
    \/ \E c \in Slots : AppendHashed(c, "iv_a")
    \/ \E c \in Slots : AppendEncrypted(c)
    \/ \E c \in Slots, r \in RandomTokens : AppendLinked(c, r)
    \/ CallGetAllItems
    \/ \E c \in Slots : GetAllItemsStep(c)

SpecReplay == InitReplay /\ [][NextReplay]_vars

\* ------------------------------------------------------- input validation
\* A string is the sequence of its characters; a control character is
\* written by its name.
Digits == {"0", "1", "2", "3", "4", "5", "6", "7", "8", "9"}
HexLetters == {"A", "B", "C", "D", "E", "F"}
UpperLetters ==
    HexLetters \cup {"G", "H", "I", "J", "K", "L", "M", "N", "O", "P", "Q", "R", "S",
                     "T", "U", "V", "W", "X", "Y", "Z"}
LowerLetters ==
    {"a", "b", "c", "d", "e", "f", "g", "h", "i", "j", "k", "l", "m", "n", "o", "p",
     "q", "r", "s", "t", "u", "v", "w", "x", "y", "z"}
Whitespace == {" ", "TAB", "LF", "CR"}
ControlChars == {"NUL", "BEL", "ESC", "DEL"}
Punctuation ==
    {"!", "#", "$", "%", "&", "APOSTROPHE", "(", ")", "*", "+", ",", "-", ".", "/", ":", ";",
     "<", "=", ">", "?", "@", "[", "BACKSLASH", "]", "^", "_", "BACKTICK", "{", "|", "}", "~",
     "QUOTE"}
\* [\x20-\x7E]
PrintableAscii == Digits \cup UpperLetters \cup LowerLetters \cup Punctuation \cup {" "}
WordChars == Digits \cup UpperLetters \cup LowerLetters \cup {"_"}

\* String.prototype.toUpperCase on one character.
UpperOf(ch) ==
    CASE ch = "a" -> "A" [] ch = "b" -> "B" [] ch = "c" -> "C" [] ch = "d" -> "D"
      [] ch = "e" -> "E" [] ch = "f" -> "F" [] ch = "g" -> "G" [] ch = "h" -> "H"
      [] ch = "i" -> "I" [] ch = "j" -> "J" [] ch = "k" -> "K" [] ch = "l" -> "L"
      [] ch = "m" -> "M" [] ch = "n" -> "N" [] ch = "o" -> "O" [] ch = "p" -> "P"
      [] ch = "q" -> "Q" [] ch = "r" -> "R" [] ch = "s" -> "S" [] ch = "t" -> "T"
      [] ch = "u" -> "U" [] ch = "v" -> "V" [] ch = "w" -> "W" [] ch = "x" -> "X"
      [] ch = "y" -> "Y" [] ch = "z" -> "Z" [] OTHER -> ch
toUpperCase(s) == [p \in 1..Len(s) |-> UpperOf(s[p])]

\* input.normalize('NFKC') on one character: a fullwidth form becomes its
\* ASCII counterpart.
NFKC(ch) ==
    CASE ch = "FULLWIDTH_SEMICOLON" -> ";"
      [] ch = "FULLWIDTH_LESS_THAN" -> "<"
      [] ch = "FULLWIDTH_DIGIT_ONE" -> "1"
      [] OTHER -> ch
normalize(s) == [p \in 1..Len(s) |-> NFKC(s[p])]

\* clean.replace(/[\x00-\x08\x0B\x0C\x0E-\x1F\x7F]/g, '')
RECURSIVE StripControl(_)
StripControl(s) ==
    IF s = <<>> THEN <<>>
    ELSE IF Head(s) \in ControlChars THEN StripControl(Tail(s))
         ELSE <<Head(s)>> \o StripControl(Tail(s))

\* String.prototype.trim
RECURSIVE TrimStart(_)
TrimStart(s) ==
    IF s # <<>> /\ Head(s) \in Whitespace THEN TrimStart(Tail(s)) ELSE s
RECURSIVE TrimEnd(_)
TrimEnd(s) ==
    IF s # <<>> /\ s[Len(s)] \in Whitespace THEN TrimEnd(SubSeq(s, 1, Len(s) - 1)) ELSE s
trim(s) == TrimEnd(TrimStart(s))

canonicalizeTrimmingFirst(input) ==
    IF input = <<>> THEN <<>> ELSE StripControl(trim(normalize(input)))
canonicalize(input) ==
    IF input = <<>> THEN <<>> ELSE trim(StripControl(normalize(input)))

\* Whether the literal occurs at position p of s, compared exactly or with
\* the /i flag.
OccursAt(s, p, literal, ignoreCase) ==
    /\ p + Len(literal) - 1 <= Len(s)
    /\ \A q \in 1..Len(literal) :
           IF ignoreCase THEN UpperOf(s[p + q - 1]) = UpperOf(literal[q])
           ELSE s[p + q - 1] = literal[q]
Contains(s, literal, ignoreCase) == \E p \in 1..Len(s) : OccursAt(s, p, literal, ignoreCase)

\* \bWORD\b at position p.
WordAt(s, p, word) ==
    /\ OccursAt(s, p, word, TRUE)
    /\ (p = 1 \/ s[p - 1] \notin WordChars)
    /\ (p + Len(word) > Len(s) \/ s[p + Len(word)] \notin WordChars)
\* /(\bFIRST\b.*\bSECOND\b)/i: '.' does not match a line terminator.
WordThenWord(s, first, second) ==
    \E p \in 1..Len(s) :
        /\ WordAt(s, p, first)
        /\ \E q \in (p + Len(first))..Len(s) :
               /\ WordAt(s, q, second)
               /\ \A m \in (p + Len(first))..(q - 1) : s[m] \notin {"LF", "CR"}

\* ATTACK_VECTORS
MatchesAttackVector(s) ==
    \/ WordThenWord(s, <<"U", "N", "I", "O", "N">>, <<"S", "E", "L", "E", "C", "T">>)
    \/ WordThenWord(s, <<"S", "E", "L", "E", "C", "T">>, <<"F", "R", "O", "M">>)
    \/ WordThenWord(s, <<"I", "N", "S", "E", "R", "T">>, <<"I", "N", "T", "O">>)
    \/ WordThenWord(s, <<"U", "P", "D", "A", "T", "E">>, <<"S", "E", "T">>)
    \/ WordThenWord(s, <<"D", "E", "L", "E", "T", "E">>, <<"F", "R", "O", "M">>)
    \/ Contains(s, <<"-", "-">>, FALSE)
    \/ Contains(s, <<"/", "*">>, FALSE)
    \/ Contains(s, <<";">>, FALSE)
    \/ Contains(s, <<"|">>, FALSE)
    \/ Contains(s, <<"BACKTICK">>, FALSE)
    \/ Contains(s, <<"$", "(">>, FALSE)
    \/ Contains(s, <<"&">>, FALSE)
    \/ Contains(s, <<".", ".", "/">>, FALSE)
    \/ Contains(s, <<".", ".", "BACKSLASH">>, FALSE)
    \/ Contains(s, <<"<", "s", "c", "r", "i", "p", "t">>, TRUE)
    \/ Contains(s, <<"j", "a", "v", "a", "s", "c", "r", "i", "p", "t", ":">>, TRUE)
    \/ Contains(s, <<"o", "n", "e", "r", "r", "o", "r", "=">>, TRUE)
    \/ Contains(s, <<"o", "n", "l", "o", "a", "d", "=">>, TRUE)

\* detectAttackVectors: whether it throws.
detectAttackVectorsNever(input, context) == FALSE
detectAttackVectors(input, context) ==
    context # "PASSWORD" /\ MatchesAttackVector(input)

AllIn(s, class) == \A p \in 1..Len(s) : s[p] \in class

\* 25[0-5]|2[0-4][0-9]|[01]?[0-9][0-9]?
MatchesOctetTwoDigits(s) == Len(s) \in 1..2 /\ AllIn(s, Digits)
MatchesOctet(s) ==
    /\ Len(s) \in 1..3
    /\ AllIn(s, Digits)
    /\ Len(s) = 3 =>
          \/ s[1] \in {"0", "1"}
          \/ s[1] = "2" /\ s[2] \in {"0", "1", "2", "3", "4"}
          \/ s[1] = "2" /\ s[2] = "5" /\ s[3] \in {"0", "1", "2", "3", "4", "5"}
\* PATTERNS.IP_V4: four octets separated by three dots.
MatchesIPv4(s) ==
    LET dots == {p \in 1..Len(s) : s[p] = "."}
    IN /\ Cardinality(dots) = 3
       /\ \E a, b, c \in dots :
              /\ a < b /\ b < c
              /\ MatchesOctet(SubSeq(s, 1, a - 1))
              /\ MatchesOctet(SubSeq(s, a + 1, b - 1))
              /\ MatchesOctet(SubSeq(s, b + 1, c - 1))
              /\ MatchesOctet(SubSeq(s, c + 1, Len(s)))

DigitValue(ch) ==
    CASE ch = "0" -> 0 [] ch = "1" -> 1 [] ch = "2" -> 2 [] ch = "3" -> 3
      [] ch = "4" -> 4 [] ch = "5" -> 5 [] ch = "6" -> 6 [] ch = "7" -> 7
      [] ch = "8" -> 8 [] ch = "9" -> 9
\* parseInt(s, 10) of a string of digits.
RECURSIVE parseInt(_)
parseInt(s) ==
    IF s = <<>> THEN 0
    ELSE 10 * parseInt(SubSeq(s, 1, Len(s) - 1)) + DigitValue(s[Len(s)])

\* String.prototype.split on a one-character separator.
RECURSIVE Split(_, _)
Split(s, separator) ==
    IF \A p \in 1..Len(s) : s[p] # separator THEN <<s>>
    ELSE LET at == CHOOSE p \in 1..Len(s) :
                       s[p] = separator /\ \A q \in 1..(p - 1) : s[q] # separator
         IN <<SubSeq(s, 1, at - 1)>> \o Split(SubSeq(s, at + 1, Len(s)), separator)
\* The RFC1918 check of startScan on testIp.split('.').map(Number), for an
\* address the IP schema has accepted (Number ignores surrounding whitespace).
IsPrivate(testIp) ==
    LET pieces == Split(testIp, ".")
        parts == [i \in 1..Len(pieces) |-> parseInt(trim(pieces[i]))]
    IN \/ parts[1] = 10
       \/ parts[1] = 172 /\ parts[2] >= 16 /\ parts[2] <= 31
       \/ parts[1] = 192 /\ parts[2] = 168

\* PATTERNS.MASTER_KEY
MatchesMasterKey(s) ==
    /\ Len(s) = 19
    /\ \A p \in 1..19 :
           IF p \in {5, 10, 15} THEN s[p] = "-" ELSE s[p] \in HexLetters \cup Digits

\* port > 0 && port <= 65535
PortInRangeUnbounded(port) == port > 0
PortInRange(port) == port > 0 /\ port <= 65535

Contexts == {"IP", "PORT", "SAFE_TEXT", "FILENAME", "MASTER_KEY", "SERIAL", "PASSWORD"}

\* The switch of validate: isValid for a known context.
SchemaAccepts(cleanInput, context) ==
    CASE context = "IP" ->
             /\ MatchesIPv4(cleanInput)
             /\ cleanInput # <<"0", ".", "0", ".", "0", ".", "0">>
             /\ cleanInput # <<"2", "5", "5", ".", "2", "5", "5", ".",
                               "2", "5", "5", ".", "2", "5", "5">>
      [] context = "PORT" ->
             /\ cleanInput # <<>> /\ AllIn(cleanInput, Digits)
             /\ PortInRange(parseInt(cleanInput))
      [] context = "SAFE_TEXT" ->
             /\ cleanInput # <<>>
             /\ AllIn(cleanInput, LowerLetters \cup UpperLetters \cup Digits
                                     \cup Whitespace \cup {"-", "_", "."})
      [] context = "FILENAME" ->
             /\ cleanInput # <<>>
             /\ AllIn(cleanInput, LowerLetters \cup UpperLetters \cup Digits \cup {"-", "_"})
             /\ Len(cleanInput) <= 255
      [] context = "MASTER_KEY" -> MatchesMasterKey(toUpperCase(cleanInput))
      [] context = "SERIAL" ->
             /\ cleanInput # <<>>
             /\ AllIn(toUpperCase(cleanInput), UpperLetters \cup Digits \cup {"-"})
      [] context = "PASSWORD" ->
             /\ cleanInput # <<>> /\ AllIn(cleanInput, PrintableAscii)
             /\ Len(cleanInput) >= 8

\* The messages of SecurityException, as the parts the template literal
\* joins: fixed text, the context argument, the fieldName argument, or input.
Text(s) == [text |-> s]
ContextPart(context) == [context |-> context]
FieldPart(fieldName) == [fieldName |-> fieldName]
EmptyMessage(fieldName) ==
    <<FieldPart(fieldName), Text(" cannot be empty or whitespace only.")>>
AttackMessage(context) == <<Text("Malicious Pattern Detected: "), ContextPart(context)>>
UnknownContextMessage(context) ==
    <<Text("Unknown validation context: "), ContextPart(context)>>
SchemaMessageEchoingInput(cleanInput, fieldName) ==
    <<Text("Security Policy Violation: "), FieldPart(fieldName),
      Text(" rejected value "), [input |-> cleanInput]>>
SchemaMessage(cleanInput, fieldName) ==
    <<Text("Security Policy Violation: "), FieldPart(fieldName),
      Text(" format is invalid or contains prohibited characters.")>>

\* validate up to its throw or return: the canonical input, the stage that
\* decides, the message thrown or the value returned, and whether
\* logViolation is called.
ValidateOutcome(input, context, fieldName) ==
    LET cleanInput == canonicalize(input)
    IN IF cleanInput = <<>> /\ context # "SAFE_TEXT"
       THEN [stage |-> "empty", threw |-> TRUE, logs |-> FALSE, cleanInput |-> cleanInput,
             message |-> EmptyMessage(fieldName)]
       ELSE IF detectAttackVectors(cleanInput, context)
       THEN [stage |-> "attack-scan", threw |-> TRUE, logs |-> FALSE,
             cleanInput |-> cleanInput,
             message |-> AttackMessage(context)]
       ELSE IF context \notin Contexts
       THEN [stage |-> "context", threw |-> TRUE, logs |-> FALSE,
             cleanInput |-> cleanInput,
             message |-> UnknownContextMessage(context)]
       ELSE IF ~SchemaAccepts(cleanInput, context)
       THEN [stage |-> "schema", threw |-> TRUE, logs |-> TRUE,
             cleanInput |-> cleanInput,
             message |-> SchemaMessage(cleanInput, fieldName)]
       ELSE [stage |-> "accepted", threw |-> FALSE, logs |-> FALSE,
             cleanInput |-> cleanInput,
             value |-> IF context \in {"MASTER_KEY", "SERIAL"}
                       THEN toUpperCase(cleanInput) ELSE cleanInput]

\* logViolation: the masked input and the record handed to append.
FragmentLimit == 50
Mask == <<"*", "*", "*", "*", "*", "*", "*", "*">>
Ellipsis == <<".", ".", ".">>
MaskedInputTruncatedOnly(input, context) ==
    SubSeq(input, 1, IF Len(input) > FragmentLimit THEN FragmentLimit ELSE Len(input))
        \o (IF Len(input) > FragmentLimit THEN Ellipsis ELSE <<>>)
MaskedInput(input, context) ==
    IF context = "PASSWORD" \/ context = "MASTER_KEY" THEN Mask
    ELSE SubSeq(input, 1, IF Len(input) > FragmentLimit THEN FragmentLimit ELSE Len(input))
             \o (IF Len(input) > FragmentLimit THEN Ellipsis ELSE <<>>)

ViolationRecord(input, context, fieldName) ==
    Obj([type |-> "SECURITY_VIOLATION",
         severity |-> "critical",
         description |-> <<"Injection Blocked (", context, "): ", fieldName>>,
         metadata |-> Obj([payload_fragment |-> MaskedInput(input, context),
                           validation_schema |-> context])])

\* try { await secureStorage.append(...) }: append rejects when no key is set.
TryLogViolation(key) == [threw |-> KeyMissing(key)]
\* catch (e) { console.error("Failed to log security violation", e) }
LogFailurePropagates(result) == result
CatchLogFailure(result) == [threw |-> FALSE]

\* The inputs handed to validate.
LongText == [p \in 1..(FragmentLimit + 1) |-> IF p = FragmentLimit + 1 THEN "!" ELSE "a"]
ValidatorInputs ==
    {<<>>,
     <<" ", "TAB">>,
     <<"1", "0", ".", "0", ".", "0", ".", "1">>,
     <<"1", "0", ".", "0", ".", "0", ".", "1", ";", "l", "s">>,
     <<"1", "0", ".", "0", ".", "0", ".", "1", "FULLWIDTH_SEMICOLON", "l", "s">>,
     <<"n", "o", "t", " ", "a", "n", " ", "i", "p", "!">>,
     <<"h", "u", "n", "t", "e", "r", "2", "2">>,
     <<"p", "w", ";", "1">>,
     <<"s", "3", "c", "r", "3", "t">>,
     LongText}
\* The strings validate is applied to on its own: attack payloads, dotted
\* quads, ports, and values that canonicalisation or upper-casing changes.
SchemaInputs ==
    {<<>>,
     <<"APOSTROPHE", " ", "O", "R", " ", "1", "=", "1", " ", "-", "-">>,
     <<";", " ", "r", "m", " ", "-", "r", "f">>,
     <<"<", "s", "c", "r", "i", "p", "t", ">">>,
     <<".", ".", "/", ".", ".", "/", "e", "t", "c", "/", "p", "a", "s", "s", "w", "d">>,
     <<"a", " ", "-", "-", " ", "b">>,
     <<"x", "<", "s", "c", "r", "i", "p", "t", ">", "y">>,
     <<"1", "0", ".", "0", ".", "0", ".", "1", ";", " ", "r", "m", " ", "-", "r", "f", " ", "/">>,
     <<"l", "o", "g", "s", " ", ".", ".", "/", ".", ".", "/", "e", "t", "c", "/", "p", "a", "s", "s", "w", "d">>,
     <<"<", "s", "c", "r", "NUL", "i", "p", "t", ">">>,
     <<"FULLWIDTH_SEMICOLON", " ", "r", "m", " ", "-", "r", "f">>,
     <<"U", "N", "I", "O", "N", " ", "S", "E", "L", "E", "C", "T">>,
     <<"8", "0", "8", "0", ";", "1">>,
     <<"1", "9", "2", ".", "1", "6", "8", ".", "1", ".", "1">>,
     <<"1", "9", "2", ".", "1", "6", "8", ".", "0", "1", ".", "1">>,
     <<"0", ".", "0", ".", "0", ".", "0">>,
     <<"2", "5", "5", ".", "2", "5", "5", ".", "2", "5", "5", ".", "2", "5", "5">>,
     <<"2", "5", "6", ".", "1", ".", "1", ".", "1">>,
     <<"1", ".", "2", ".", "3">>,
     <<"1", ".", "2", ".", "3", ".", "4", ".", "5">>,
     <<"0", "0", "1", ".", "2", ".", "3", ".", "4">>,
     <<"1", ".", ".", "2", ".", "3">>,
     <<"8", ".", "8", ".", "8", ".", "8">>,
     <<"1", "7", "2", ".", "1", "6", ".", "0", ".", "1">>,
     <<"1", "7", "2", ".", "3", "2", ".", "0", ".", "1">>,
     <<" ", "1", "0", ".", "0", ".", "0", ".", "1", " ">>,
     <<"1", ".", "2", ".", "3", ".", "a">>,
     <<"2", "4", "9", ".", "2", "5", "0", ".", "1", "9", "9", ".", "0">>,
     <<"8", "0", "8", "0">>,
     <<"7", "0", "0", "0", "0">>,
     <<"0">>,
     <<"6", "5", "5", "3", "5">>,
     <<"6", "5", "5", "3", "6">>,
     <<"1">>,
     <<"+", "8", "0">>,
     <<"-", "1">>,
     <<"8", "0", " ", "8", "0">>,
     <<"0", "8", "0">>,
     <<"0", "0", "0">>,
     <<" ", "8", "0", "8", "0", " ">>,
     <<"8", "0", "a">>,
     <<"FULLWIDTH_DIGIT_ONE">>,
     <<"a", "b", "c", "d", "-", "1", "2", "3", "4", "-", "e", "f", "0", "0", "-", "9", "a", "9", "a">>,
     <<"A", "B", "C", "D", "-", "1", "2", "3", "4", "-", "E", "F", "0", "0", "-", "9", "A", "9", "A">>,
     <<"s", "n", "-", "1", "2", "a">>,
     <<" ", "h", "u", "n", "t", "e", "r", "2", "2", " ">>,
     <<"c", "l", "i", "p", "_", "0", "1">>,
     <<"c", "l", "NUL", "i", "p">>,
     <<"NUL", " ", "a">>,
     <<"f", "r", "o", "n", "t", " ", "d", "o", "o", "r">>}
ValidatorContexts == {"IP", "SAFE_TEXT", "PASSWORD", "MASTER_KEY", "TELNET"}
FieldNames == {"Input", "Subnet Prefix"}
\* LoginScreen.generateNewKey: the alphabet, the number of segments and the
\* length of one.
chars ==
    <<"A", "B", "C", "D", "E", "F", "G", "H", "J", "K", "L", "M", "N", "P", "Q", "R",
      "S", "T", "U", "V", "W", "X", "Y", "Z", "2", "3", "4", "5", "6", "7", "8", "9">>
segments == 4
segmentLength == 4
\* The values of Math.floor(Math.random() * chars.length) of one segment, and
\* those of one key in the order of the draws.
SegmentDraws == {<<0, 1, 2, 3>>, <<4, 5, 24, 31>>, <<6, 7, 8, 9>>, <<5, 23, 0, 24>>}
KeyDraws == {a \o b \o c \o d : a \in SegmentDraws, b \in SegmentDraws,
                                c \in SegmentDraws, d \in SegmentDraws}
\* The inner loop: segment += chars.charAt(draw), segmentLength times.
Segment(random, i) ==
    [j \in 1..segmentLength |-> chars[random[i * segmentLength + j] + 1]]
\* The outer loop after i rounds: key += (i > 0 ? '-' : '') + segment.
RECURSIVE KeyAfter(_, _)
KeyAfter(random, i) ==
    IF i = 0 THEN <<>>
    ELSE KeyAfter(random, i - 1) \o (IF i - 1 > 0 THEN <<"-">> ELSE <<>>)
             \o Segment(random, i - 1)
generateNewKey(random) == KeyAfter(random, segments)
NewKeys == {generateNewKey(random) : random \in KeyDraws}

\* validate is a function of its arguments: the table of its outcomes
\* (@@ makes TLC compute the table once).
Outcomes ==
    <<>> @@ [args \in ValidatorInputs \X ValidatorContexts \X FieldNames |->
                ValidateOutcome(args[1], args[2], args[3])]
SchemaOutcomes ==
    <<>> @@ [args \in SchemaInputs \X Contexts \X {"Input"} |->
                ValidateOutcome(args[1], args[2], args[3])]
NewKeyOutcomes ==
    <<>> @@ [args \in NewKeys \X {"MASTER_KEY"} \X {"Input"} |->
                ValidateOutcome(args[1], args[2], args[3])]
OutcomeOf(input, context, fieldName) ==
    IF input \in ValidatorInputs /\ context \in ValidatorContexts
    THEN Outcomes[<<input, context, fieldName>>]
    ELSE IF input \in SchemaInputs
    THEN SchemaOutcomes[<<input, context, fieldName>>]
    ELSE NewKeyOutcomes[<<input, context, fieldName>>]

\* The violations logged or being logged.
ViolationsLogged ==
    Cardinality({r \in returned : HasField(r.data, "type")
                                     /\ r.data.f.type = "SECURITY_VIOLATION"})
        + Cardinality({c \in Slots : calls[c].op = "append"
                                        /\ calls[c].via = "logViolation"})
CanLog == CanGrow /\ ViolationsLogged < MaxViolations

\* validate(input, context, fieldName): it throws or returns in the calling
\* step; on a schema failure logViolation has called append before the throw,
\* and the promise of logViolation is dropped.
Validate(input, context, fieldName) ==
    LET outcome == OutcomeOf(input, context, fieldName)
        record == ViolationRecord(outcome.cleanInput, context, fieldName)
        logFailure == CatchLogFailure(TryLogViolation(encryptionKey))
    IN /\ CanIssue
       /\ IF outcome.logs /\ ~KeyMissing(encryptionKey)
          THEN /\ CanLog
               /\ calls' = [calls EXCEPT ![FreeSlot] =
                               [op |-> "append", via |-> "logViolation", pc |-> "sha256",
                                key |-> encryptionKey, prevBlock |-> LastBlock(chain),
                                data |-> record, dataString |-> DataString(record)]]
          ELSE UNCHANGED calls
       /\ event' =
              IF ~outcome.threw
              THEN [op |-> "validate", ev |-> "return", called |-> TRUE,
                    input |-> input, context |-> context, fieldName |-> fieldName,
                    stage |-> outcome.stage, value |-> outcome.value,
                    logging |-> "none"]
              ELSE [op |-> "validate", ev |-> "raise", called |-> TRUE,
                    input |-> input, context |-> context, fieldName |-> fieldName,
                    stage |-> outcome.stage,
                    error |-> IF outcome.logs /\ logFailure.threw
                              THEN "Error" ELSE "SecurityException",
                    message |-> IF outcome.logs /\ logFailure.threw
                                THEN <<Text("Storage locked: Encryption key not initialized")>>
                                ELSE outcome.message,
                    logging |-> IF ~outcome.logs THEN "none"
                                ELSE IF KeyMissing(encryptionKey) THEN "swallowed"
                                ELSE "started"]
       /\ UNCHANGED <<chain, encryptionKey, storage, now, serialized, returned, observed, uiVars>>

\* The validation gate in front of the ledger: rejected inputs are logged
\* through append while the caller goes on.
InitValidate ==
    /\ chain = <<>>
    /\ encryptionKey = NoKey
    /\ storage = <<>>
    /\ calls = [c \in Slots |-> Idle]
    /\ now = 0
    /\ serialized = FALSE
    /\ event = NoEvent
    /\ returned = {}
    /\ observed = NotObserving
    /\ InitUI

NextValidate ==
    \/ CallInitialize("INITIAL_KEY_DERIVATION")
    \/ \E c \in Slots : InitializeImported(c)
    \/ \E c \in Slots : InitializeDerived(c)
    \/ \E input \in ValidatorInputs, context \in ValidatorContexts, fieldName \in FieldNames :
           Validate(input, context, fieldName)
    \/ \E c \in Slots : AppendHashed(c, "iv_a")
    \/ \E c \in Slots : AppendEncrypted(c)
    \/ \E c \in Slots, r \in RandomTokens : AppendLinked(c, r)

SpecValidate == InitValidate /\ [][NextValidate]_vars

\* validate on its own, before the ledger is initialised: every context of
\* ValidationContext applied to every string of SchemaInputs.
NextSchema ==
    \E input \in SchemaInputs, context \in Contexts : Validate(input, context, "Input")

SpecSchema == InitValidate /\ [][NextSchema]_vars

\* -------------------------------------------------------- network scanner
\* The subnet prefixes and port lists typed into the scanner form.
ScanSubnets ==
    {<<"1", "0", ".", "0", ".", "0">>,
     <<"1", "9", "2", ".", "1", "6", "8", ".", "0", "1">>,
     <<"8", ".", "8", ".", "8">>,
     <<"1", "0", ".", "0", ".", "0", ";", "l", "s">>,
     <<"1", "0", ".", "0">>}
ScanPortLists ==
    {<<"8", "0", ",", " ", "4", "4", "3">>,
     <<"4", "4", "3">>,
     <<"8", "0", ",", "0">>,
     <<"7", "0", "0", "0", "0", ",", "8", "0">>,
     <<"8", "0", ",", "8", "0", "8", "0", ";", "1">>}

\* The validation block of startScan (its try block up to setIsScanning):
\* whether it throws, the message, the violation validate logs, the ports.
RfcMessage ==
    <<Text("Security Policy: Scanning permitted on RFC1918 Private Networks only.")>>
PortOutcomes(targetPorts) ==
    LET portList == Split(targetPorts, ",")
    IN [i \in 1..Len(portList) |->
           ValidateOutcome(trim(portList[i]), "PORT", "Target Port")]
ScanChecksKeepingValidPorts(subnet, targetPorts) ==
    LET testIp == subnet \o <<".", "1">>
        ip == ValidateOutcome(testIp, "IP", "Subnet Prefix")
        port == PortOutcomes(targetPorts)
        valid(outcome) == ~outcome.threw
        kept == SelectSeq(port, valid)
    IN IF ip.threw \/ ~IsPrivate(testIp)
       THEN [threw |-> TRUE, message |-> RfcMessage, cleanPorts |-> <<>>,
             violation |-> <<>>]
       ELSE [threw |-> FALSE, message |-> <<>>, violation |-> <<>>,
             cleanPorts |-> [i \in 1..Len(kept) |-> parseInt(kept[i].value)]]
ScanChecks(subnet, targetPorts) ==
    LET testIp == subnet \o <<".", "1">>
        ip == ValidateOutcome(testIp, "IP", "Subnet Prefix")
        port == PortOutcomes(targetPorts)
        bad == {i \in 1..Len(port) : port[i].threw}
        first == CHOOSE i \in bad : \A j \in bad : i <= j
    IN IF ip.threw
       THEN [threw |-> TRUE, message |-> ip.message, cleanPorts |-> <<>>,
             violation |-> IF ip.logs
                           THEN <<ViolationRecord(ip.cleanInput, "IP", "Subnet Prefix")>>
                           ELSE <<>>]
       ELSE IF ~IsPrivate(testIp)
       THEN [threw |-> TRUE, message |-> RfcMessage, cleanPorts |-> <<>>,
             violation |-> <<>>]
       ELSE IF bad # {}
       THEN [threw |-> TRUE, message |-> port[first].message,
             cleanPorts |-> [i \in 1..(first - 1) |-> parseInt(port[i].value)],
             violation |-> IF port[first].logs
                           THEN <<ViolationRecord(port[first].cleanInput, "PORT",
                                                  "Target Port")>>
                           ELSE <<>>]
       ELSE [threw |-> FALSE, message |-> <<>>, violation |-> <<>>,
             cleanPorts |-> [i \in 1..Len(port) |-> parseInt(port[i].value)]]
ScanOutcomes ==
    <<>> @@ [args \in ScanSubnets \X ScanPortLists |-> ScanChecks(args[1], args[2])]

\* The SCAN_NETWORK records startScan appends.
ScanStartedRecord(subnet, targetPorts) ==
    Obj([type |-> "SCAN_NETWORK",
         description |-> <<"Subnet Scan Started: ", subnet, ".x">>,
         metadata |-> Obj([ports |-> targetPorts])])
ScanCompleteRecord(activeHosts) ==
    Obj([type |-> "SCAN_NETWORK",
         description |-> <<"Subnet Scan Complete. Found ", activeHosts,
                           " potential hosts.">>,
         severity |-> IF activeHosts > 0 THEN "warning" ELSE "info"])
AppendPending(data) == \E c \in Slots : calls[c].op = "append" /\ calls[c].data = data

\* startScan up to its first await: the validation block, then either the
\* catch block or the scan made visible and its start logged.
StartScan(subnet, targetPorts) ==
    LET checks == ScanOutcomes[<<subnet, targetPorts>>]
        started == ScanStartedRecord(subnet, targetPorts)
        locked == KeyMissing(encryptionKey)
    IN /\ app.view = "SCANNER"
       /\ ~scanner.isScanning
       /\ CanIssue
       /\ IF checks.threw
          THEN /\ scanner' = [scanner EXCEPT !.scanError = checks.message,
                                              !.isScanning = FALSE]
               /\ IF checks.violation # <<>> /\ ~locked
                  THEN /\ CanLog
                       /\ calls' = [calls EXCEPT ![FreeSlot] =
                               [op |-> "append", via |-> "logViolation", pc |-> "sha256",
                                key |-> encryptionKey, prevBlock |-> LastBlock(chain),
                                data |-> checks.violation[1],
                                dataString |-> DataString(checks.violation[1])]]
                  ELSE UNCHANGED calls
          ELSE IF locked
          THEN /\ scanner' = [scanner EXCEPT
                                 !.scanError = <<Text("Storage locked: Encryption key not initialized")>>,
                                 !.isScanning = FALSE, !.aborted = FALSE]
               /\ UNCHANGED calls
          ELSE /\ CanGrow
               /\ Cardinality(scanner.scans) < MaxScans
               /\ scanner' = [scanner EXCEPT
                                 !.scanError = Null, !.isScanning = TRUE, !.aborted = FALSE,
                                 !.scans = @ \cup {[subnet |-> subnet,
                                                    targetPorts |-> targetPorts,
                                                    cleanPorts |-> checks.cleanPorts,
                                                    node |-> 1]}]
               /\ calls' = [calls EXCEPT ![FreeSlot] =
                               [op |-> "append", via |-> "startScan", pc |-> "sha256",
                                key |-> encryptionKey, prevBlock |-> LastBlock(chain),
                                data |-> started, dataString |-> DataString(started)]]
       /\ event' = [op |-> "startScan", ev |-> IF checks.threw \/ locked THEN "raise"
                                               ELSE "suspend",
                    called |-> TRUE, subnet |-> subnet, targetPorts |-> targetPorts,
                    rejected |-> checks.threw]
       /\ UNCHANGED <<browser, chain, encryptionKey, storage, now, serialized, returned, observed,
                      localStorage, app, prompt, login>>

\* One batch of the probe loop, after the start record has been appended:
\* checkHost for the batch's nodes with the validated ports.
ScanBatch(scan) ==
    /\ scan \in scanner.scans
    /\ ~AppendPending(ScanStartedRecord(scan.subnet, scan.targetPorts))
    /\ scan.node <= MaxNodes /\ ~scanner.aborted
    /\ scanner' = [scanner EXCEPT
                      !.scans = (@ \ {scan}) \cup {[scan EXCEPT !.node = @ + 1]},
                      !.probed = @ \cup {[ip |-> scan.subnet \o <<".">> \o <<scan.node>>,
                                          ports |-> scan.cleanPorts]}]
    /\ event' = [op |-> "startScan", ev |-> "resume", called |-> FALSE]
    /\ UNCHANGED <<browser, chain, encryptionKey, storage, calls, now, serialized, returned,
                   observed, localStorage, app, prompt, login>>

\* The loop has ended or was aborted: the scan is hidden and its end logged.
ScanComplete(scan, activeHosts) ==
    LET complete == ScanCompleteRecord(activeHosts)
    IN /\ scan \in scanner.scans
       /\ ~AppendPending(ScanStartedRecord(scan.subnet, scan.targetPorts))
       /\ scan.node > MaxNodes \/ scanner.aborted
       /\ CanIssue /\ CanGrow
       /\ scanner' = [scanner EXCEPT !.scans = @ \ {scan}, !.isScanning = FALSE]
       /\ calls' = [calls EXCEPT ![FreeSlot] =
                       [op |-> "append", via |-> "startScan", pc |-> "sha256",
                        key |-> encryptionKey, prevBlock |-> LastBlock(chain),
                        data |-> complete, dataString |-> DataString(complete)]]
       /\ event' = [op |-> "startScan", ev |-> "resume", called |-> FALSE]
       /\ UNCHANGED <<browser, chain, encryptionKey, storage, now, serialized, returned, observed,
                      localStorage, app, prompt, login>>

StopScan ==
    /\ app.view = "SCANNER"
    /\ scanner.isScanning
    /\ scanner' = [scanner EXCEPT !.aborted = TRUE, !.isScanning = FALSE]
    /\ event' = [op |-> "stopScan", ev |-> "return", called |-> TRUE]
    /\ UNCHANGED <<browser, chain, encryptionKey, storage, calls, now, serialized, returned,
                   observed, localStorage, app, prompt, login>>

\* The scanner view, opened while the ledger may still be initialising.
InitScan ==
    /\ chain = <<>>
    /\ encryptionKey = NoKey
    /\ storage = <<>>
    /\ calls = [c \in Slots |-> Idle]
    /\ now = 0
    /\ serialized = FALSE
    /\ event = NoEvent
    /\ returned = {}
    /\ observed = NotObserving
    /\ localStorage = EmptyLocalStorage
    /\ app = AppInView("SCANNER")
    /\ prompt = PromptMounted
    /\ login = LoginMounted
    /\ scanner = ScannerMounted
    /\ browser = BrowserUnmounted

NextScan ==
    \/ CallInitialize("INITIAL_KEY_DERIVATION")
    \/ \E c \in Slots : InitializeImported(c)
    \/ \E c \in Slots : InitializeDerived(c)
    \/ \E subnet \in ScanSubnets, targetPorts \in ScanPortLists :
           StartScan(subnet, targetPorts)
    \/ \E scan \in scanner.scans : ScanBatch(scan)
    \/ \E scan \in scanner.scans, activeHosts \in 0..1 : ScanComplete(scan, activeHosts)
    \/ StopScan
    \/ \E c \in Slots : AppendHashed(c, "iv_a")
    \/ \E c \in Slots : AppendEncrypted(c)
    \/ \E c \in Slots, r \in RandomTokens : AppendLinked(c, r)

SpecScan == InitScan /\ [][NextScan]_vars

\* ------------------------------------------------- App, login and prompt
\* Master keys as generated, and what a user types for one.
GeneratedKeys == {<<"K", "7", "-", "Q", "2">>}
TypedKeys ==
    {<<"K", "7", "-", "Q", "2">>, <<" ", "k", "7", "-", "q", "2">>, <<"K", "7", "-", "Q", "3">>}
HardwareIds == {"hw_a", "hw_b"}
MfaCodes == {<<"1", "2", "3", "4", "5", "6">>, <<"1", "2", "3">>}
\* secureStorage.sha256(inputKey.trim().toUpperCase())
KeyHash(inputKey) == sha256(RawChars(toUpperCase(trim(inputKey))))
\* A profile on which handleSetupComplete has run on device hw_a.
BoundLocalStorage ==
    [keysight_master_hash |-> sha256(RawChars(<<"K", "7", "-", "Q", "2">>)),
     keysight_device_bind |-> "hw_a"]

\* addLog: the record handed to secureStorage.append, which the handlers do
\* not await; a locked ledger rejects it.
LogRecord(type, description, severity) ==
    Obj([type |-> type, description |-> description, severity |-> severity,
         timestamp |-> Num(now), hash |-> "PENDING"])
CanAddLog == CanIssue /\ (KeyMissing(encryptionKey) \/ CanGrow)
AddLog(type, description, severity) ==
    LET newLog == LogRecord(type, description, severity)
    IN calls' = IF KeyMissing(encryptionKey) THEN calls
                ELSE [calls EXCEPT ![FreeSlot] =
                         [op |-> "append", via |-> "addLog", pc |-> "sha256",
                          key |-> encryptionKey, prevBlock |-> LastBlock(chain),
                          data |-> newLog, dataString |-> DataString(newLog)]]

\* setView: App renders LoginScreen for LOGIN, StorageBrowser for STORAGE,
\* NetworkScanner for SCANNER and the dashboard with MasterKeyPrompt
\* otherwise. A component that is mounted starts from its initial state; the
\* timers and promises of an unmounted one still run and can call onLogin
\* or onSuccess, while their own setState calls do nothing.
\* The session timer effect runs when view has changed: in an
\* authenticated view it sets sessionTime to SESSION_TIMEOUT and starts a
\* new interval, the interval of the view left is cleared.
EffectKeepingTime(view, sessionTime) == sessionTime
SessionTimerEffect(view, sessionTime) ==
    IF view # app.view /\ view \in AuthenticatedViews THEN SESSION_TIMEOUT
    ELSE sessionTime
SetViewAt(view, isStorageAuthOpen, sessionTime, l, pr) ==
    /\ app' = [view |-> view, isStorageAuthOpen |-> isStorageAuthOpen,
               sessionTime |-> SessionTimerEffect(view, sessionTime)]
    /\ login' = IF (view = "LOGIN") = (app.view = "LOGIN") THEN l
                ELSE [LoginMounted EXCEPT
                         !.pending = {[p EXCEPT !.stale = TRUE] : p \in l.pending}]
    /\ prompt' = IF view \in {"LOGIN", "STORAGE", "SCANNER"}
                 THEN [PromptMounted EXCEPT
                          !.pending = {[p EXCEPT !.stale = TRUE] : p \in pr.pending}]
                 ELSE pr
SetView(view, isStorageAuthOpen, l, pr) ==
    SetViewAt(view, isStorageAuthOpen, app.sessionTime, l, pr)

\* handleLogin, handleLogout, handleStorageAuthSuccess
handleLogin(l, pr) ==
    /\ CanAddLog
    /\ AddLog("AUTH", <<"Secure session established. Device bound.">>, "info")
    /\ SetView("DASHBOARD", app.isStorageAuthOpen, l, pr)
handleLogout(reason) ==
    /\ CanAddLog
    /\ AddLog("AUTH", <<"Session terminated: ", reason>>, "warning")
    /\ SetViewAt("LOGIN", app.isStorageAuthOpen,
                 IF reason = "SESSION_TIMEOUT" THEN 0 ELSE app.sessionTime, login, prompt)
handleStorageAuthSuccess(pr) ==
    /\ CanAddLog
    /\ AddLog("AUTH", <<"Storage Vault unlocked via Master Key">>, "info")
    /\ SetView("STORAGE", FALSE, login, pr)

\* LoginScreen: the mount effect checkState.
CheckState(hwId, generatedKey) ==
    /\ app.view = "LOGIN" /\ login.mode = "LOADING"
    /\ login' = IF localStorage.keysight_master_hash # Null
                THEN [login EXCEPT
                         !.mode = "LOGIN",
                         !.error = IF localStorage.keysight_device_bind = hwId THEN <<>>
                                   ELSE <<"CRITICAL: DEVICE MISMATCH DETECTED.">>]
                ELSE [login EXCEPT !.mode = "SETUP", !.generatedKey = generatedKey]
    /\ event' = [op |-> "checkState", ev |-> "return", called |-> TRUE]
    /\ UNCHANGED <<browser, chain, encryptionKey, storage, calls, now, serialized, returned,
                   observed, localStorage, app, prompt, scanner>>

\* handleSetupComplete: the click arms a timer.
SetupComplete ==
    /\ app.view = "LOGIN" /\ login.mode = "SETUP"
    /\ Cardinality(login.pending) < MaxPending
    /\ login' = [login EXCEPT !.pending = @ \cup {[kind |-> "setup", stale |-> FALSE,
                                                    generatedKey |-> login.generatedKey]}]
    /\ event' = [op |-> "handleSetupComplete", ev |-> "suspend", called |-> TRUE]
    /\ UNCHANGED <<browser, chain, encryptionKey, storage, calls, now, serialized, returned,
                   observed, localStorage, app, prompt, scanner>>

\* The timer of handleSetupComplete: the key hash and the device are stored
\* and onLogin is called.
SetupTimer(p, hwId) ==
    /\ p \in login.pending /\ p.kind = "setup"
    /\ localStorage' = [keysight_master_hash |-> sha256(RawChars(p.generatedKey)),
                        keysight_device_bind |-> hwId]
    /\ handleLogin([login EXCEPT !.pending = @ \ {p}], prompt)
    /\ event' = [op |-> "handleSetupComplete", ev |-> "return", called |-> FALSE,
                 onLogin |-> TRUE, mode |-> "SETUP"]
    /\ UNCHANGED <<browser, chain, encryptionKey, storage, now, serialized, returned, observed,
                   scanner>>

\* handleLoginSubmit up to its timers: the stored hash and binding are read,
\* the fingerprint of this device is computed, the entered key is hashed.
DeviceMatchesAlways(boundDevice, currentHwId) == TRUE
DeviceMatches(boundDevice, currentHwId) == boundDevice = currentHwId
LoginSubmit(inputKey, currentHwId) ==
    /\ app.view = "LOGIN" /\ login.mode = "LOGIN"
    /\ Cardinality(login.pending) < MaxPending
    /\ login' = [login EXCEPT
                    !.inputKey = inputKey, !.error = <<>>,
                    !.pending = @ \cup
                        {[kind |-> "login", stale |-> FALSE,
                          storedHash |-> localStorage.keysight_master_hash,
                          boundDevice |-> localStorage.keysight_device_bind,
                          currentHwId |-> currentHwId,
                          inputHash |-> KeyHash(inputKey)]}]
    /\ event' = [op |-> "handleLoginSubmit", ev |-> "suspend", called |-> TRUE]
    /\ UNCHANGED <<browser, chain, encryptionKey, storage, calls, now, serialized, returned,
                   observed, localStorage, app, prompt, scanner>>

\* The timer of handleLoginSubmit: the device error, the key error, or MFA.
LoginTimer(p) ==
    /\ p \in login.pending /\ p.kind = "login"
    /\ login' =
           IF p.stale THEN [login EXCEPT !.pending = @ \ {p}]
           ELSE IF ~DeviceMatches(p.boundDevice, p.currentHwId)
           THEN [login EXCEPT !.pending = @ \ {p},
                              !.error = <<"ACCESS DENIED: DEVICE FINGERPRINT MISMATCH.">>]
           ELSE IF p.inputHash = p.storedHash
           THEN [login EXCEPT !.pending = @ \ {p}, !.mode = "MFA"]
           ELSE [login EXCEPT !.pending = @ \ {p},
                              !.error = <<"INVALID ACCESS KEY. ACCESS DENIED.">>]
    /\ event' = [op |-> "handleLoginSubmit", ev |-> "return", called |-> FALSE,
                 storedHash |-> p.storedHash, boundDevice |-> p.boundDevice,
                 currentHwId |-> p.currentHwId, inputHash |-> p.inputHash]
    /\ UNCHANGED <<browser, chain, encryptionKey, storage, calls, now, serialized, returned,
                   observed, localStorage, app, prompt, scanner>>

\* handleMfaSubmit: the click arms a timer.
MfaSubmit(mfaCode) ==
    /\ app.view = "LOGIN" /\ login.mode = "MFA"
    /\ Cardinality(login.pending) < MaxPending
    /\ login' = [login EXCEPT !.pending = @ \cup {[kind |-> "mfa", stale |-> FALSE,
                                                    mfaCode |-> mfaCode]}]
    /\ event' = [op |-> "handleMfaSubmit", ev |-> "suspend", called |-> TRUE]
    /\ UNCHANGED <<browser, chain, encryptionKey, storage, calls, now, serialized, returned,
                   observed, localStorage, app, prompt, scanner>>

\* The timer of handleMfaSubmit: any six digits call onLogin.
MfaTimer(p) ==
    /\ p \in login.pending /\ p.kind = "mfa"
    /\ IF Len(p.mfaCode) = 6 /\ AllIn(p.mfaCode, Digits)
       THEN handleLogin([login EXCEPT !.pending = @ \ {p}], prompt)
       ELSE /\ login' = [login EXCEPT !.pending = @ \ {p},
                                      !.error = IF p.stale THEN @
                                                ELSE <<"INVALID MFA CODE">>]
            /\ UNCHANGED <<calls, app, prompt>>
    /\ event' = [op |-> "handleMfaSubmit", ev |-> "return", called |-> FALSE,
                 onLogin |-> Len(p.mfaCode) = 6 /\ AllIn(p.mfaCode, Digits),
                 mode |-> "MFA"]
    /\ UNCHANGED <<browser, chain, encryptionKey, storage, now, serialized, returned, observed,
                   localStorage, scanner>>

\* Navbar and the back buttons.
Logout(reason) ==
    /\ IF reason = "USER_INITIATED" THEN app.view = "DASHBOARD"
       ELSE app.view \in {"DASHBOARD", "STORAGE", "SCANNER"}
    /\ handleLogout(reason)
    /\ event' = [op |-> "handleLogout", ev |-> "return", called |-> TRUE]
    /\ UNCHANGED <<browser, chain, encryptionKey, storage, now, serialized, returned, observed,
                   localStorage, scanner>>
OpenScanner ==
    /\ app.view = "DASHBOARD"
    /\ SetView("SCANNER", app.isStorageAuthOpen, login, prompt)
    /\ event' = [op |-> "onOpenScanner", ev |-> "return", called |-> TRUE]
    /\ UNCHANGED <<browser, chain, encryptionKey, storage, calls, now, serialized, returned,
                   observed, localStorage, scanner>>
Back ==
    /\ app.view \in {"STORAGE", "SCANNER"}
    /\ SetView("DASHBOARD", app.isStorageAuthOpen, login, prompt)
    /\ event' = [op |-> "onBack", ev |-> "return", called |-> TRUE]
    /\ UNCHANGED <<browser, chain, encryptionKey, storage, calls, now, serialized, returned,
                   observed, localStorage, scanner>>

\* handleOpenStorageRequest and the prompt's onClose
OpenStorageRequest ==
    /\ app.view = "DASHBOARD"
    /\ app' = [app EXCEPT !.isStorageAuthOpen = TRUE]
    /\ event' = [op |-> "handleOpenStorageRequest", ev |-> "return", called |-> TRUE]
    /\ UNCHANGED <<browser, chain, encryptionKey, storage, calls, now, serialized, returned,
                   observed, localStorage, prompt, login, scanner>>
PromptClose ==
    /\ app.view = "DASHBOARD" /\ app.isStorageAuthOpen
    /\ app' = [app EXCEPT !.isStorageAuthOpen = FALSE]
    /\ event' = [op |-> "onClose", ev |-> "return", called |-> TRUE]
    /\ UNCHANGED <<browser, chain, encryptionKey, storage, calls, now, serialized, returned,
                   observed, localStorage, prompt, login, scanner>>

\* MasterKeyPrompt.handleSubmit up to its delay: the stored hash is read.
PromptSubmit(inputKey) ==
    /\ app.view = "DASHBOARD" /\ app.isStorageAuthOpen
    /\ Cardinality(prompt.pending) < MaxPending
    /\ prompt' = [prompt EXCEPT
                     !.inputKey = inputKey, !.error = <<>>,
                     !.pending = @ \cup
                         {[stale |-> FALSE, inputKey |-> inputKey,
                           storedHash |-> localStorage.keysight_master_hash]}]
    /\ event' = [op |-> "handleSubmit", ev |-> "suspend", called |-> TRUE]
    /\ UNCHANGED <<browser, chain, encryptionKey, storage, calls, now, serialized, returned,
                   observed, localStorage, app, login, scanner>>

\* handleSubmit after the delay: the hashes are compared.
PromptAcceptsAnything(inputHash, storedHash) == TRUE
PromptAccepts(inputHash, storedHash) == inputHash = storedHash
PromptVerify(p) ==
    LET inputHash == KeyHash(p.inputKey)
        rest == [prompt EXCEPT !.pending = @ \ {p}]
    IN /\ p \in prompt.pending
       /\ IF PromptAccepts(inputHash, p.storedHash)
          THEN handleStorageAuthSuccess([rest EXCEPT !.inputKey = IF p.stale THEN @ ELSE <<>>])
          ELSE /\ prompt' = [rest EXCEPT !.error = IF p.stale THEN @
                                                   ELSE <<"ACCESS DENIED: Invalid Key.">>]
               /\ UNCHANGED <<calls, app, login>>
       /\ event' = [op |-> "handleSubmit", ev |-> "return", called |-> FALSE,
                    inputHash |-> inputHash, storedHash |-> p.storedHash,
                    onSuccess |-> PromptAccepts(inputHash, p.storedHash)]
       /\ UNCHANGED <<browser, chain, encryptionKey, storage, now, serialized, returned, observed,
                      localStorage, scanner>>

\* The App on a profile without a master key or bound to device hw_a.
InitApp ==
    /\ chain = <<>>
    /\ encryptionKey = NoKey
    /\ storage = <<>>
    /\ calls = [c \in Slots |-> Idle]
    /\ now = 0
    /\ serialized = FALSE
    /\ event = NoEvent
    /\ returned = {}
    /\ observed = NotObserving
    /\ localStorage \in {EmptyLocalStorage, BoundLocalStorage}
    /\ app = AppMounted
    /\ prompt = PromptMounted
    /\ login = LoginMounted
    /\ scanner = ScannerMounted
    /\ browser = BrowserUnmounted

\* handleReset: localStorage.clear() and window.location.reload().
Reset ==
    /\ app.view = "LOGIN" /\ login.mode \in {"SETUP", "LOGIN", "MFA"}
    /\ chain' = <<>> /\ encryptionKey' = NoKey /\ storage' = <<>>
    /\ calls' = [c \in Slots |-> Idle]
    /\ returned' = {}
    /\ localStorage' = EmptyLocalStorage
    /\ app' = AppMounted /\ prompt' = PromptMounted /\ login' = LoginMounted
    /\ event' = [op |-> "handleReset", ev |-> "return", called |-> TRUE]
    /\ UNCHANGED <<now, serialized, observed, scanner, browser>>

\* The mount effect of App: secureStorage.initialize, once per page load.
InitStorage ==
    /\ chain = <<>> /\ \A c \in Slots : calls[c].op # "initialize"
    /\ CallInitialize("INITIAL_KEY_DERIVATION")

NextApp ==
    \/ InitStorage
    \/ \E c \in Slots : InitializeImported(c)
    \/ \E c \in Slots : InitializeDerived(c)
    \/ \E hwId \in HardwareIds, generatedKey \in GeneratedKeys : CheckState(hwId, generatedKey)
    \/ SetupComplete
    \/ \E p \in login.pending, hwId \in HardwareIds : SetupTimer(p, hwId)
    \/ \E inputKey \in TypedKeys, hwId \in HardwareIds : LoginSubmit(inputKey, hwId)
    \/ \E p \in login.pending : LoginTimer(p)
    \/ \E mfaCode \in MfaCodes : MfaSubmit(mfaCode)
    \/ \E p \in login.pending : MfaTimer(p)
    \/ \E reason \in {"USER_INITIATED", "SESSION_TIMEOUT"} : Logout(reason)
    \/ OpenScanner
    \/ Back
    \/ OpenStorageRequest
    \/ PromptClose
    \/ \E inputKey \in TypedKeys : PromptSubmit(inputKey)
    \/ \E p \in prompt.pending : PromptVerify(p)
    \/ Reset
    \/ \E c \in Slots : AppendHashed(c, "iv_a")
    \/ \E c \in Slots : AppendEncrypted(c)
    \/ \E c \in Slots, r \in RandomTokens : AppendLinked(c, r)

SpecApp == InitApp /\ [][NextApp]_vars

\* ------------------------------------------------------- storage browser
\* StorageBrowser as rendered in the STORAGE view: its mount effect has
\* called loadData, whose timer is pending.
LoadTimer == [kind |-> "loadTimer"]
BrowserMounted ==
    [mounted |-> TRUE, items |-> <<>>, loading |-> TRUE, selectedIds |-> {},
     isProcessing |-> FALSE, pending |-> {LoadTimer}]

\* The record the login wrote when the session was established.
SessionRecord ==
    Obj([type |-> "AUTH",
         description |-> <<"Secure session established. Device bound.">>,
         severity |-> "info", timestamp |-> Num(0), hash |-> "PENDING"])
SessionBlock ==
    NewBlock(1, GenesisBlock(0), sha256(DataString(SessionRecord)), 0, "r_a")

\* The item cards shown, and Array.from(selectedIds) in insertion order.
ShownIds == {browser.items[p]._blockIndex : p \in 1..Len(browser.items)}
Orders(ids) ==
    {order \in [1..Cardinality(ids) -> ids] :
        \A p, q \in 1..Cardinality(ids) : p # q => order[p] # order[q]}
RECURSIVE SelectedIndices(_, _, _)
SelectedIndices(items, ids, locked) ==
    IF items = <<>> THEN <<>>
    ELSE IF Head(items)._blockIndex \in ids /\ Head(items).locked = locked
         THEN <<Head(items)._blockIndex>> \o SelectedIndices(Tail(items), ids, locked)
         ELSE SelectedIndices(Tail(items), ids, locked)

\* secureStorage.lockItem / deleteItem called by a handler of the browser.
IssueAppend(via, data) ==
    calls' = [calls EXCEPT ![FreeSlot] =
                 [op |-> "append", via |-> via, pc |-> "sha256",
                  key |-> encryptionKey, prevBlock |-> LastBlock(chain),
                  data |-> data, dataString |-> DataString(data)]]

\* loadData(): setLoading(true); setTimeout(..., 500); it returns at once, so
\* the handler awaiting it goes on before the timer fires.
LoadData(b) == [b EXCEPT !.loading = TRUE, !.pending = @ \cup {LoadTimer}]
\* await loadData(); setIsProcessing(false); setSelectedIds(new Set())
HandlerDone(b) == [LoadData(b) EXCEPT !.isProcessing = FALSE, !.selectedIds = {}]

\* A click or a timer runs only when no handler has a continuation ready:
\* the code after an await whose promise has resolved runs first.
Settled ==
    \A p \in browser.pending :
        p.kind \in {"handleLock", "handleDelete"} => AppendPending(p.data)

\* The 500 ms timer of loadData fires: getAllItems is called.
LoadTimerFires ==
    /\ browser.mounted /\ LoadTimer \in browser.pending
    /\ Settled
    /\ CanIssue
    /\ LET slot == FreeSlot
       IN /\ LoopHead(slot, 1, EmptyReplay, TRUE)
          /\ browser' =
                IF event'.ev = "return"
                THEN [browser EXCEPT !.items = event'.value, !.loading = FALSE,
                                     !.pending = @ \ {LoadTimer}]
                ELSE [browser EXCEPT !.pending = (@ \ {LoadTimer}) \cup {LoadRead(slot)}]
    /\ UNCHANGED <<chain, encryptionKey, storage, now, serialized, returned,
                   localStorage, app, prompt, login, scanner>>

toggleSelect(index) ==
    /\ browser.mounted /\ index \in ShownIds
    /\ Settled
    /\ browser' = [browser EXCEPT
                      !.selectedIds = IF index \in @ THEN @ \ {index} ELSE @ \cup {index}]
    /\ event' = [op |-> "toggleSelect", ev |-> "return", called |-> TRUE]
    /\ UNCHANGED <<chain, encryptionKey, storage, calls, now, serialized, returned,
                   observed, localStorage, app, prompt, login, scanner>>

\* A handler of the browser up to its next await: either it calls
\* lockItem / deleteItem for the first index left, or its loop has ended.
HandlerStep(kind, via, indices, b, atCall) ==
    IF indices = <<>>
    THEN /\ browser' = HandlerDone(b)
         /\ event' = [op |-> kind, ev |-> "return", called |-> atCall, issued |-> <<>>,
                      blocked |-> FALSE]
         /\ UNCHANGED calls
    ELSE IF KeyMissing(encryptionKey)
    THEN /\ browser' = b
         /\ event' = [op |-> kind, ev |-> "raise", called |-> atCall, issued |-> <<>>,
                      blocked |-> FALSE]
         /\ UNCHANGED calls
    ELSE LET data == IF via = "lockItem"
                     THEN LockRecord(Head(indices), "admin_user", now)
                     ELSE TombstoneRecord(Head(indices), "admin_user", now)
         IN /\ CanIssue /\ CanGrow
            /\ IssueAppend(via, data)
            /\ browser' = [b EXCEPT !.pending =
                              @ \cup {[kind |-> kind, data |-> data, rest |-> Tail(indices)]}]
            /\ event' = [op |-> kind, ev |-> IF atCall THEN "suspend" ELSE "resume",
                         called |-> atCall, issued |-> <<Head(indices)>>,
                         blocked |-> FALSE]

handleLock ==
    /\ browser.mounted /\ browser.selectedIds # {}
    /\ Settled
    /\ \A p \in browser.pending : p.kind # "handleLock"
    /\ HandlerStep("handleLock", "lockItem",
                   SelectedIndices(browser.items, browser.selectedIds, FALSE),
                   [browser EXCEPT !.isProcessing = TRUE], TRUE)
    /\ UNCHANGED <<chain, encryptionKey, storage, now, serialized, returned, observed,
                   localStorage, app, prompt, login, scanner>>

\* handleDelete: the alert for locked items, the confirm dialog, the loop.
handleDelete(confirmed, order) ==
    /\ browser.mounted /\ browser.selectedIds # {}
    /\ Settled
    /\ \A p \in browser.pending : p.kind # "handleDelete"
    /\ IF SelectedIndices(browser.items, browser.selectedIds, TRUE) # <<>>
       THEN /\ event' = [op |-> "handleDelete", ev |-> "return", called |-> TRUE,
                         issued |-> <<>>, blocked |-> TRUE]
            /\ UNCHANGED <<browser, calls>>
       ELSE IF ~confirmed
       THEN /\ event' = [op |-> "handleDelete", ev |-> "return", called |-> TRUE,
                         issued |-> <<>>, blocked |-> FALSE]
            /\ UNCHANGED <<browser, calls>>
       ELSE HandlerStep("handleDelete", "deleteItem", order,
                        [browser EXCEPT !.isProcessing = TRUE], TRUE)
    /\ UNCHANGED <<chain, encryptionKey, storage, now, serialized, returned, observed,
                   localStorage, app, prompt, login, scanner>>

\* The awaited lockItem / deleteItem has resolved: the loop goes on.
HandlerResumes(p) ==
    /\ p \in browser.pending /\ p.kind \in {"handleLock", "handleDelete"}
    /\ ~AppendPending(p.data)
    /\ HandlerStep(p.kind, IF p.kind = "handleLock" THEN "lockItem" ELSE "deleteItem",
                   p.rest, [browser EXCEPT !.pending = @ \ {p}], FALSE)
    /\ UNCHANGED <<chain, encryptionKey, storage, now, serialized, returned, observed,
                   localStorage, app, prompt, login, scanner>>

\* The STORAGE view right after it opened: the ledger holds the genesis
\* block and the record of the login.
InitBrowser ==
    /\ chain = <<GenesisBlock(0), SessionBlock>>
    /\ encryptionKey = DeriveKey("INITIAL_KEY_DERIVATION")
    /\ storage = MapSet(<<>>, 1, Encrypt(encryptionKey, "iv_a", DataString(SessionRecord)))
    /\ calls = [c \in Slots |-> Idle]
    /\ now = 0
    /\ serialized = FALSE
    /\ event = NoEvent
    /\ returned = {[block |-> SessionBlock, data |-> SessionRecord, key |-> encryptionKey]}
    /\ observed = NotObserving
    /\ localStorage = BoundLocalStorage
    /\ app = AppInView("STORAGE")
    /\ prompt = PromptMounted
    /\ login = LoginMounted
    /\ scanner = ScannerMounted
    /\ browser = BrowserMounted

\* The clock and the nonce are held fixed.
NextBrowser ==
    \/ LoadTimerFires
    \/ \E c \in Slots : GetAllItemsStep(c)
    \/ \E index \in Indices : toggleSelect(index)
    \/ handleLock
    \/ \E confirmed \in BOOLEAN, order \in Orders(browser.selectedIds) :
          handleDelete(confirmed, order)
    \/ \E p \in browser.pending : HandlerResumes(p)
    \/ \E c \in Slots : AppendHashed(c, "iv_a")
    \/ \E c \in Slots : AppendEncrypted(c)
    \/ \E c \in Slots, r \in RandomTokens : AppendLinked(c, r)

SpecBrowser == InitBrowser /\ [][NextBrowser]_vars

\* --------------------------------------------------------- session timer
\* The callback of the one-second interval:
\* setSessionTime(prev => { if (prev <= 1) { handleLogout("SESSION_TIMEOUT");
\* return 0; } return prev - 1; })
SessionTick ==
    /\ app.view \in AuthenticatedViews
    /\ IF app.sessionTime <= 1
       THEN /\ handleLogout("SESSION_TIMEOUT")
            /\ event' = [op |-> "sessionTimer", ev |-> "return", called |-> TRUE,
                         timeout |-> TRUE]
       ELSE /\ app' = [app EXCEPT !.sessionTime = @ - 1]
            /\ event' = [op |-> "sessionTimer", ev |-> "return", called |-> TRUE,
                         timeout |-> FALSE]
            /\ UNCHANGED <<calls, login, prompt>>
    /\ UNCHANGED <<browser, chain, encryptionKey, storage, now, serialized, returned,
                   observed, localStorage, scanner>>

\* The dashboard right after a login on a bound device, the ledger
\* initialised: the login's record was appended, or the login came before
\* the key was derived and its append was refused.
InitSession ==
    /\ encryptionKey = DeriveKey("INITIAL_KEY_DERIVATION")
    /\ \/ /\ chain = <<GenesisBlock(0)>>
          /\ storage = <<>>
          /\ returned = {}
       \/ /\ chain = <<GenesisBlock(0), SessionBlock>>
          /\ storage = MapSet(<<>>, 1,
                              Encrypt(encryptionKey, "iv_a", DataString(SessionRecord)))
          /\ returned = {[block |-> SessionBlock, data |-> SessionRecord,
                          key |-> encryptionKey]}
    /\ calls = [c \in Slots |-> Idle]
    /\ now = 0
    /\ serialized = FALSE
    /\ event = NoEvent
    /\ observed = NotObserving
    /\ localStorage = BoundLocalStorage
    /\ app = AppInView("DASHBOARD")
    /\ prompt = PromptMounted
    /\ login = LoginMounted
    /\ scanner = ScannerMounted
    /\ browser = BrowserUnmounted

\* The vault is opened only while the chain has room for its record and for
\* the record of the logout.
RoomForLogout == Len(chain) + PendingAppends + 2 <= MaxBlocks

AppendSteps ==
    \/ \E c \in Slots, iv \in IVs : AppendHashed(c, iv)
    \/ \E c \in Slots : AppendEncrypted(c)
    \/ \E c \in Slots, r \in RandomTokens : AppendLinked(c, r)

NextSession ==
    \/ Tick
    \/ SessionTick
    \/ OpenScanner
    \/ Back
    \/ OpenStorageRequest
    \/ PromptClose
    \/ \E inputKey \in TypedKeys : PromptSubmit(inputKey)
    \/ \E p \in prompt.pending : RoomForLogout /\ PromptVerify(p)
    \/ Logout("USER_INITIATED")
    \/ AppendSteps

\* The interval keeps firing while an authenticated view is shown, and the
\* cryptographic operations of a pending append complete.
SpecSession ==
    InitSession /\ [][NextSession]_vars /\ WF_vars(SessionTick) /\ WF_vars(AppendSteps)

\* ------------------------------------------------------- new master keys
\* The mount effect of LoginScreen on a profile without a stored hash shows
\* a key made by generateNewKey.
NewKeyShown ==
    \E hwId \in HardwareIds, random \in KeyDraws : CheckState(hwId, generateNewKey(random))

\* The key shown on the setup screen is given to validate as a MASTER_KEY.
ValidateNewKey ==
    /\ app.view = "LOGIN" /\ login.mode = "SETUP"
    /\ Validate(login.generatedKey, "MASTER_KEY", "Input")

NextKey ==
    \/ NewKeyShown
    \/ ValidateNewKey

SpecKey == InitValidate /\ [][NextKey]_vars

\* ================================================================ claims

\* C1: in every reachable state the blocks of the chain have pairwise
\* distinct indices and the block at position i carries index i, also when
\* appends are issued without awaiting one another.
C1_IndexIsPosition ==
    /\ \A i \in 1..Len(chain) : chain[i].index = i - 1
    /\ \A i, j \in 1..Len(chain) : i # j => chain[i].index # chain[j].index

\* C2: when every call is awaited before the next, the previousHash of each
\* block after the genesis is the hash of the previous block's metadata
\* (index, previousHash, timestamp, dataHash, signature), not of a payload.
C2_HashLinked ==
    \A i \in 2..Len(chain) :
        /\ chain[i].previousHash = sha256(JSONstringify(chain[i - 1]))
        /\ \A k \in DOMAIN storage : chain[i].previousHash # sha256(storage[k].plaintext)

C2_Witness ==
    /\ serialized
    /\ Len(chain) = 3
    /\ event.op = "append" /\ event.ev = "return" /\ event.via = "deleteItem"

\* C3: the chain length grows by exactly 1 in the step in which an append
\* returns, is unchanged by an append that raises and by every step of
\* decrypt and getAllItems, and never decreases, also when appends interleave.
C3_LengthSteps ==
    [][/\ Len(chain') >= GetChainLength
       /\ (event'.op = "append" /\ event'.ev = "return") => Len(chain') = GetChainLength + 1
       /\ (event'.op = "append" /\ event'.ev = "raise") => Len(chain') = GetChainLength
       /\ event'.op \in {"decrypt", "getAllItems"} => Len(chain') = GetChainLength]_vars

\* Two appends read the same previous block and both have returned.
C3_Witness ==
    /\ event.op = "append" /\ event.ev = "return"
    /\ Len(chain) = 3
    /\ chain[2].index = chain[3].index

\* C4: a pushed block is never changed or removed, and a payload stored
\* under an index is never replaced by a different payload, under any
\* interleaving of the ledger's operations.
C4_AppendOnly ==
    [][/\ Len(chain') >= Len(chain)
       /\ SubSeq(chain', 1, Len(chain)) = chain
       /\ \A k \in DOMAIN storage : k \in DOMAIN storage' /\ storage'[k] = storage[k]]_vars

\* C5: an append (direct or through lockItem, unlockItem, deleteItem) called
\* while no key is established raises in the calling step and leaves the
\* chain and the payload store unchanged.
C5_AppendFailsClosed ==
    [][(encryptionKey = NoKey /\ event'.op = "append" /\ event'.called)
          => (event'.ev = "raise" /\ chain' = chain /\ storage' = storage)]_vars

\* An append raised while an initialize call is still pending.
C5_Witness ==
    /\ encryptionKey = NoKey
    /\ event.op = "append" /\ event.ev = "raise" /\ event.called
    /\ \E c \in Slots : calls[c].op = "initialize" /\ calls[c].pc = "deriveKey"

\* C6: while no key is established, decrypt(index) and getAllItems() raise
\* rather than return a value.
C6_ReadsRaiseUninitialized ==
    [][(encryptionKey = NoKey /\ event'.called /\ event'.op \in {"decrypt", "getAllItems"})
          => event'.ev = "raise"]_vars

\* C7 (as stated): once a key is established no later operation, a later
\* initialize included, changes or clears it.
C7_KeyNeverChanges ==
    [][encryptionKey # NoKey => encryptionKey' = encryptionKey]_vars

\* C7 (amended): once a key is established it is never cleared, and it is
\* changed only by the return of a later initialize, which replaces it by the
\* key derived from that call's passphrase.
PassphraseOf(key) == key[4]
C7_KeyNeverCleared ==
    [][encryptionKey # NoKey =>
          /\ encryptionKey' # NoKey
          /\ IF event'.op = "initialize" /\ event'.ev = "return"
             THEN PassphraseOf(encryptionKey') = event'.masterKey
             ELSE encryptionKey' = encryptionKey]_vars

\* A later initialize returned and blocks written under the earlier key exist.
C7_Witness ==
    /\ event.op = "initialize" /\ event.ev = "return"
    /\ \E k \in DOMAIN storage : storage[k].key # encryptionKey

\* C8: initialize reports success whatever the passphrase; a decrypt under a
\* key other than the one a payload was written under returns null, and
\* getAllItems returns no item whose payload was written under another key.
C8_WrongKeyNeverDecrypts ==
    /\ event.op = "initialize" => event.ev # "raise"
    /\ (event.op = "initialize" /\ event.ev = "return") => event.value = TRUE
    /\ (/\ event.op = "decrypt" /\ event.ev \in {"return", "raise"}
        /\ event.encryptedData # <<>>
        /\ event.encryptedData[1].key # event.key)
          => (event.ev = "return" /\ event.value = Null)
    /\ (event.op = "getAllItems" /\ event.ev = "return")
          => \A p \in 1..Len(event.value) :
                 storage[event.value[p]._blockIndex].key = encryptionKey

\* A well-formed payload written under the first passphrase is read under the
\* key of a second one.
C8_Witness ==
    /\ event.op = "decrypt" /\ event.ev = "return" /\ event.value = Null
    /\ event.key # NoKey
    /\ event.encryptedData # <<>>
    /\ event.encryptedData[1].key # event.key
    /\ ~JSONparseThrows(event.encryptedData[1].plaintext)

\* C9: for every append that returned block b, a decrypt(b.index) under the
\* same key returns a record equal to the record that was appended.
C9_RoundTrip ==
    (event.op = "decrypt" /\ event.ev \in {"return", "raise"})
        => \A r \in returned :
               (r.block.index = event.index /\ r.key = event.key)
                   => (event.ev = "return" /\ event.value = r.data)

\* C10: decrypt never propagates an exception, and getAllItems returns
\* exactly the blocks after the genesis whose decrypt does not return null
\* and that are not deleted.
C10_OmitsExactlyNull ==
    /\ event.op = "decrypt" => event.ev # "raise"
    /\ (event.op = "getAllItems" /\ event.ev = "return")
          => {event.value[p]._blockIndex : p \in 1..Len(event.value)}
               = {chain[i].index : i \in {j \in 2..Len(chain) :
                     DecryptResult(encryptionKey,
                                   StorageGet(storage, chain[j].index)).value # Null}}
                   \ event.st.deletions

\* ------------------------------------------------ the view of getAllItems
GetAllItemsReturned == event.op = "getAllItems" /\ event.ev = "return"
ViewIndices == {event.value[p]._blockIndex : p \in 1..Len(event.value)}

\* The appended LOCK_EVIDENCE and UNLOCK_EVIDENCE records with targetIndex k,
\* and the one of them that is last in chain order.
Toggles(k) ==
    {r \in returned :
        /\ HasField(r.data, "type")
        /\ r.data.f.type \in {"LOCK_EVIDENCE", "UNLOCK_EVIDENCE"}
        /\ r.data.f.targetIndex = k}
LastIsLock(toggles) ==
    \E r \in toggles :
        /\ r.data.f.type = "LOCK_EVIDENCE"
        /\ \A q \in toggles : q.block.index <= r.block.index

\* C11 (as stated): when every append is awaited, an item with block index k
\* is returned with locked = true exactly when the last LOCK_EVIDENCE or
\* UNLOCK_EVIDENCE record in chain order with targetIndex k is a
\* LOCK_EVIDENCE record; an item no such record targets has locked = false.
C11_LastToggleWins ==
    GetAllItemsReturned =>
        \A p \in 1..Len(event.value) :
            event.value[p].locked = LastIsLock(Toggles(event.value[p]._blockIndex))

\* C11 (amended): the same, counting only the LOCK_EVIDENCE and
\* UNLOCK_EVIDENCE records that decrypt under the current key; a record
\* written under another key does not take part in the replay.
C11_LastDecryptedToggleWins ==
    GetAllItemsReturned =>
        \A p \in 1..Len(event.value) :
            event.value[p].locked =
                LastIsLock({r \in Toggles(event.value[p]._blockIndex) :
                               r.key = encryptionKey})

\* An item is returned locked although the last record that targets it is an
\* UNLOCK_EVIDENCE record, written under another key.
C11_Witness ==
    /\ GetAllItemsReturned
    /\ \E p \in 1..Len(event.value) :
           /\ event.value[p].locked
           /\ ~LastIsLock(Toggles(event.value[p]._blockIndex))

\* The blocks after the genesis, and those whose payload decrypt() turns into
\* a value getAllItems keeps under the current key.
LaterBlocks == {chain[i].index : i \in 2..Len(chain)}
KeptBlocks ==
    {k \in LaterBlocks :
        ContentKept(DecryptResult(encryptionKey, StorageGet(storage, k)).value)}
\* The indices targeted by an appended TOMBSTONE record that decrypts under
\* the current key.
Tombstoned ==
    {r.data.f.targetIndex : r \in
        {q \in returned : /\ HasField(q.data, "type")
                          /\ q.data.f.type = "TOMBSTONE"
                          /\ q.key = encryptionKey}}

\* The blocks appended with an object record (not a string).
ObjectBlocks == {r.block.index : r \in {q \in returned : q.data.k = "object"}}

SemanticAppends ==
    {r \in returned :
        /\ HasField(r.data, "type")
        /\ r.data.f.type \in {"LOCK_EVIDENCE", "UNLOCK_EVIDENCE", "TOMBSTONE"}}
Carries(j, record) ==
    \E p \in 1..Len(event.value) :
        event.value[p]._blockIndex = j /\ event.value[p].content = record

C14_Idempotent ==
    (GetAllItemsReturned /\ observed.seen # <<>>
         /\ observed.seen[1].length = Len(chain))
        => event.value = observed.seen[1].value

\* C14 (amended): two calls of getAllItems with no append between them and
\* the same key in force return identical results.
C14_IdempotentUnderKey ==
    (GetAllItemsReturned /\ observed.seen # <<>>
         /\ observed.seen[1].length = Len(chain)
         /\ observed.seen[1].key = encryptionKey)
        => event.value = observed.seen[1].value

\* A second call returns the same two items as an earlier one.
C14_Witness ==
    /\ GetAllItemsReturned /\ ~event.called
    /\ observed.seen # <<>>
    /\ observed.seen[1].length = Len(chain)
    /\ observed.seen[1].key = encryptionKey
    /\ Len(event.value) = 2
    /\ event.value = observed.seen[1].value

TypeOfHelper(via) ==
    CASE via = "lockItem" -> "LOCK_EVIDENCE"
      [] via = "unlockItem" -> "UNLOCK_EVIDENCE"
      [] via = "deleteItem" -> "TOMBSTONE"

ValidateRejected == event.op = "validate" /\ event.ev = "raise"
\* The step started an append of a SECURITY_VIOLATION record of severity
\* critical.
ViolationAppendStarted ==
    \E c \in Slots :
        /\ calls[c] = Idle
        /\ calls'[c].op = "append" /\ calls'[c].via = "logViolation"
        /\ calls'[c].data.f.type = "SECURITY_VIOLATION"
        /\ calls'[c].data.f.severity = "critical"

\* C17: while the ledger is unlocked, every rejection by validate, raised by
\* the attack-signature scan or by the schema check, starts the append of a
\* SECURITY_VIOLATION record of severity critical.
C17_EveryRejectionLogged ==
    [][(/\ event'.op = "validate" /\ event'.ev = "raise"
        /\ event'.stage \in {"attack-scan", "schema"}
        /\ ~KeyMissing(encryptionKey))
          => ViolationAppendStarted]_vars

\* C18: a rejecting validate raises SecurityException, with the message of
\* its rejection, in the step of the call, whether the append of the
\* violation is started, is refused because the ledger has no key, or is not
\* attempted; a refused append raises nothing to the caller and changes
\* nothing, and a started one is left running.
C18_LoggingNeverAltersRejection ==
    [][event'.op = "validate" =>
          LET outcome == Outcomes[<<event'.input, event'.context, event'.fieldName>>]
          IN /\ event'.called
             /\ outcome.threw =>
                    /\ event'.ev = "raise"
                    /\ event'.error = "SecurityException"
                    /\ event'.message = outcome.message
             /\ <<chain', storage', encryptionKey'>> = <<chain, storage, encryptionKey>>
             /\ (outcome.logs /\ KeyMissing(encryptionKey)) =>
                    (event'.logging = "swallowed" /\ calls' = calls)
             /\ (outcome.logs /\ ~KeyMissing(encryptionKey)) =>
                    (event'.logging = "started" /\ ViolationAppendStarted)]_vars

\* A schema failure is rejected while the ledger has no key: the append of
\* the violation was refused.
C18_Witness ==
    /\ ValidateRejected
    /\ event.stage = "schema" /\ event.logging = "swallowed"
    /\ encryptionKey = NoKey
    /\ \A c \in Slots : calls[c] = Idle

\* The inputs validate rejects with a logged violation, per context and field.
LoggedInputs(context, fieldName) ==
    {input \in ValidatorInputs : Outcomes[<<input, context, fieldName>>].logs}

\* C19: the SECURITY_VIOLATION record handed to append for a rejected
\* PASSWORD or MASTER_KEY input is the same for every rejected input of that
\* context and field name, and its payload fragment is the fixed mask; every
\* such record stored in the ledger carries the mask.
C19_SecretsMasked ==
    [][/\ (event'.op = "validate" /\ event'.logging = "started"
            /\ event'.context \in {"PASSWORD", "MASTER_KEY"})
          => \E c \in Slots :
                 /\ calls[c] = Idle /\ calls'[c].op = "append"
                 /\ calls'[c].data.f.metadata.f.payload_fragment = Mask
                 /\ \A other \in LoggedInputs(event'.context, event'.fieldName) :
                        calls'[c].data =
                            ViolationRecord(canonicalize(other), event'.context,
                                            event'.fieldName)
       /\ \A k \in DOMAIN storage' :
              LET record == JSONparse(storage'[k].plaintext)
              IN record.f.metadata.f.validation_schema \in {"PASSWORD", "MASTER_KEY"}
                     => record.f.metadata.f.payload_fragment = Mask]_vars

\* The violation logged for a rejected password has been appended, and
\* another password would have been rejected and logged as well.
C19_Witness ==
    /\ event.op = "append" /\ event.ev = "return" /\ event.via = "logViolation"
    /\ event.data.f.metadata.f.validation_schema = "PASSWORD"
    /\ Cardinality(LoggedInputs("PASSWORD", "Input")) >= 2
    /\ \E k \in DOMAIN storage : storage[k].plaintext = JSONstringify(event.data)

\* C20: the message of the SecurityException raised by validate is built from
\* fixed text, the context and the field name only, never from the input, and
\* every other input rejected at the same stage with the same context and
\* field name gets the identical message.
C20_MessageIndependentOfInput ==
    ValidateRejected =>
        /\ \A p \in 1..Len(event.message) :
               \/ "text" \in DOMAIN event.message[p]
               \/ event.message[p] = ContextPart(event.context)
               \/ event.message[p] = FieldPart(event.fieldName)
        /\ \A other \in ValidatorInputs :
               LET outcome == Outcomes[<<other, event.context, event.fieldName>>]
               IN (outcome.threw /\ outcome.stage = event.stage)
                      => outcome.message = event.message

\* A schema rejection whose message another, different input shares.
C20_Witness ==
    /\ ValidateRejected /\ event.stage = "schema"
    /\ \E other \in ValidatorInputs :
           /\ canonicalize(other) # canonicalize(event.input)
           /\ Outcomes[<<other, event.context, event.fieldName>>].stage = "schema"

\* Whether the literal occurs somewhere in s, character for character.
HasLiteral(s, literal) ==
    \E p \in 1..Len(s) :
        p + Len(literal) - 1 <= Len(s) /\ SubSeq(s, p, p + Len(literal) - 1) = literal
\* The payloads the specification names, and the shortest literal signatures.
Signatures ==
    {<<"APOSTROPHE", " ", "O", "R", " ", "1", "=", "1", " ", "-", "-">>,
     <<";", " ", "r", "m", " ", "-", "r", "f">>,
     <<"<", "s", "c", "r", "i", "p", "t", ">">>,
     <<".", ".", "/", ".", ".", "/", "e", "t", "c", "/", "p", "a", "s", "s", "w", "d">>,
     <<"-", "-">>, <<";">>}
HasSignature(s) == \E signature \in Signatures : HasLiteral(s, signature)

\* C21: in every context other than PASSWORD, validate raises for every input
\* whose canonical form contains an attack signature, wherever it occurs and
\* whatever surrounds it; such an input is never returned.
C21_SignaturesRejected ==
    (event.op = "validate" /\ event.context # "PASSWORD"
         /\ HasSignature(canonicalize(event.input)))
        => event.ev = "raise"

\* A signature in the middle of text the SAFE_TEXT schema alone would accept.
C21_Witness ==
    /\ event.op = "validate" /\ event.context = "SAFE_TEXT" /\ event.ev = "raise"
    /\ HasSignature(canonicalize(event.input))
    /\ ~HasLiteral(SubSeq(canonicalize(event.input), 1, 2), <<"-", "-">>)
    /\ SchemaAccepts(canonicalize(event.input), "SAFE_TEXT")

\* A decimal octet 0..255 written without leading zeros.
StrictOctet(s) ==
    /\ Len(s) \in 1..3 /\ AllIn(s, Digits)
    /\ (Len(s) > 1 => s[1] # "0")
    /\ parseInt(s) <= 255
StrictDottedQuad(s) ==
    LET dots == {p \in 1..Len(s) : s[p] = "."}
    IN /\ Cardinality(dots) = 3
       /\ \E a, b, c \in dots :
              /\ a < b /\ b < c
              /\ StrictOctet(SubSeq(s, 1, a - 1))
              /\ StrictOctet(SubSeq(s, a + 1, b - 1))
              /\ StrictOctet(SubSeq(s, b + 1, c - 1))
              /\ StrictOctet(SubSeq(s, c + 1, Len(s)))
AllZeros == <<"0", ".", "0", ".", "0", ".", "0">>
Broadcast == <<"2", "5", "5", ".", "2", "5", "5", ".", "2", "5", "5", ".", "2", "5", "5">>

\* C22: validate(x, IP) returns exactly when the canonical x is a dotted quad
\* of four octets 0..255 written without leading zeros, other than 0.0.0.0
\* and 255.255.255.255.
C22_StrictIPv4 ==
    (event.op = "validate" /\ event.context = "IP")
        => (event.ev = "return"
               <=> /\ StrictDottedQuad(canonicalize(event.input))
                   /\ canonicalize(event.input) \notin {AllZeros, Broadcast})

\* C23 as stated: validate(x, IP) returns x unchanged for every valid
\* private-range IPv4 address and raises for every public-range one.
C23_PrivateOnly ==
    (event.op = "validate" /\ event.context = "IP" /\ StrictDottedQuad(event.input)
         /\ event.input \notin {AllZeros, Broadcast})
        => IF IsPrivate(event.input)
           THEN event.ev = "return" /\ event.value = event.input
           ELSE event.ev = "raise"

\* C23 amended: validate(x, IP) returns x unchanged for every valid IPv4
\* address other than 0.0.0.0 and 255.255.255.255, private or public.
C23_ValidAddressesReturned ==
    (event.op = "validate" /\ event.context = "IP" /\ StrictDottedQuad(event.input)
         /\ event.input \notin {AllZeros, Broadcast})
        => event.ev = "return" /\ event.value = event.input

\* A public-range address and a private-range address, each returned.
C23_Witness ==
    /\ event.op = "validate" /\ event.context = "IP" /\ event.ev = "return"
    /\ StrictDottedQuad(event.input) /\ ~IsPrivate(event.input)
    /\ \E private \in SchemaInputs :
           /\ StrictDottedQuad(private) /\ IsPrivate(private)
           /\ ~SchemaOutcomes[<<private, "IP", "Input">>].threw

\* C24: validate(x, PORT) returns exactly when the canonical x consists of
\* decimal digits only and its value lies in 1..65535, and then returns the
\* canonical string; 0, values above 65535 and strings with a sign, a space
\* or another non-digit are rejected.
C24_PortRange ==
    (event.op = "validate" /\ event.context = "PORT")
        => LET cleanInput == canonicalize(event.input)
           IN /\ event.ev = "return"
                     <=> /\ cleanInput # <<>> /\ AllIn(cleanInput, Digits)
                         /\ parseInt(cleanInput) \in 1..65535
              /\ event.ev = "return" => event.value = cleanInput

\* The largest port, returned, while 65536 and 0 are among the inputs.
C24_Witness ==
    /\ event.op = "validate" /\ event.context = "PORT" /\ event.ev = "return"
    /\ event.value = <<"6", "5", "5", "3", "5">>
    /\ {<<"6", "5", "5", "3", "6">>, <<"0">>, <<"+", "8", "0">>} \subseteq SchemaInputs

\* C25: whenever validate returns, the result is the canonical form of the
\* input, upper-cased for MASTER_KEY and SERIAL, and validating the result
\* again in the same context returns the same string.
C25_CanonicalAndIdempotent ==
    (event.op = "validate" /\ event.ev = "return")
        => LET again == ValidateOutcome(event.value, event.context, event.fieldName)
           IN /\ event.value = IF event.context \in {"MASTER_KEY", "SERIAL"}
                                THEN toUpperCase(canonicalize(event.input))
                                ELSE canonicalize(event.input)
              /\ ~again.threw
              /\ again.value = event.value

\* A returned value that differs from the input it was computed from: by
\* upper-casing, and (in some other call) by canonicalisation.
C25_Witness ==
    /\ event.op = "validate" /\ event.ev = "return" /\ event.context = "MASTER_KEY"
    /\ event.value # canonicalize(event.input)
    /\ \E other \in SchemaInputs, context \in Contexts :
           /\ ~SchemaOutcomes[<<other, context, "Input">>].threw
           /\ canonicalize(other) # other

\* C26: an input whose canonical form is empty is rejected with a
\* SecurityException in every context except SAFE_TEXT, where validate
\* returns the empty string without raising and without logging a violation.
C26_EmptyOnlyForSafeText ==
    (event.op = "validate" /\ canonicalize(event.input) = <<>>)
        => IF event.context = "SAFE_TEXT"
           THEN event.ev = "return" /\ event.value = <<>> /\ event.logging = "none"
           ELSE event.ev = "raise" /\ event.error = "SecurityException"

\* Whether validate raises for the subnet prefix or for one of the ports.
ValidationRaises ==
    <<>> @@ [args \in ScanSubnets \X ScanPortLists |->
                \/ ValidateOutcome(args[1] \o <<".", "1">>, "IP", "Subnet Prefix").threw
                \/ \E i \in 1..Len(Split(args[2], ",")) :
                       ValidateOutcome(trim(Split(args[2], ",")[i]), "PORT",
                                       "Target Port").threw]
ScanRecords ==
    {calls[c].data : c \in {d \in Slots : calls[d].op = "append"
                                            /\ calls[d].via = "startScan"}}

\* C27: a startScan whose subnet or one of whose ports fails validation
\* starts no scan: isScanning is false after it, no host is probed, no
\* SCAN_NETWORK append is begun and the ledger is as it was; the ports that
\* were valid are not used.
C27_RejectedScanBlocked ==
    [][(event'.op = "startScan" /\ event'.called
           /\ ValidationRaises[<<event'.subnet, event'.targetPorts>>])
          => /\ ~scanner'.isScanning
             /\ scanner'.scans = scanner.scans
             /\ scanner'.probed = scanner.probed
             /\ ScanRecords' = ScanRecords
             /\ chain' = chain /\ storage' = storage]_vars

\* The second port of a private subnet is rejected while the ledger is
\* unlocked, after an earlier scan has probed a host.
C27_Witness ==
    /\ event.op = "startScan" /\ event.called
    /\ ~ValidateOutcome(event.subnet \o <<".", "1">>, "IP", "Subnet Prefix").threw
    /\ ValidationRaises[<<event.subnet, event.targetPorts>>]
    /\ ~ValidateOutcome(trim(Split(event.targetPorts, ",")[1]), "PORT", "Target Port").threw
    /\ ~KeyMissing(encryptionKey)
    /\ scanner.probed # {}
    /\ ~scanner.isScanning

\* C28: the view becomes STORAGE only in the step in which
\* MasterKeyPrompt.handleSubmit finds the hash of the entered key equal to
\* the stored master hash and calls onSuccess; no navigation handler sets it.
C28_StorageOnlyThroughPrompt ==
    [][(app'.view = "STORAGE" /\ app.view # "STORAGE")
          => /\ event'.op = "handleSubmit" /\ event'.ev = "return"
             /\ event'.onSuccess
             /\ event'.inputHash = event'.storedHash
             /\ event'.storedHash = localStorage.keysight_master_hash
             /\ event'.storedHash # Null]_vars

\* The storage browser opened by the prompt in a session whose login was
\* written to the ledger.
C28_Witness ==
    /\ app.view = "STORAGE" /\ event.op = "handleSubmit" /\ event.onSuccess
    /\ \E r \in returned :
           /\ HasField(r.data, "description")
           /\ r.data.f.description = <<"Secure session established. Device bound.">>

\* C29: from mode LOGIN the mode becomes MFA only in the timer of a
\* handleLoginSubmit whose hardware id equals the stored binding and whose
\* key hash equals the stored master hash; an MFA timer is armed only in
\* mode MFA, and the view leaves LOGIN for the dashboard only through
\* onLogin called by the MFA timer or by first-time setup.
C29_DeviceBoundLogin ==
    [][/\ (login.mode = "LOGIN" /\ login'.mode = "MFA")
          => /\ event'.op = "handleLoginSubmit" /\ event'.ev = "return"
             /\ event'.currentHwId = event'.boundDevice
             /\ event'.boundDevice = localStorage.keysight_device_bind
             /\ event'.inputHash = event'.storedHash
             /\ event'.storedHash = localStorage.keysight_master_hash
       /\ \A p \in login'.pending \ login.pending :
              (p.kind = "mfa" /\ ~p.stale) => login.mode = "MFA"
       /\ (app.view = "LOGIN" /\ app'.view = "DASHBOARD")
          => /\ event'.op \in {"handleMfaSubmit", "handleSetupComplete"}
             /\ event'.onLogin]_vars

\* The dashboard reached through MFA on the bound device.
C29_Witness ==
    /\ app.view = "DASHBOARD" /\ event.op = "handleMfaSubmit" /\ event.onLogin
    /\ localStorage = BoundLocalStorage

\* The contents decrypt can return for the payloads ever stored under an
\* index: the payload stored there now and the payload of every block
\* pushed with that index.
ContentsWritten(index) ==
    {DecryptResult(encryptionKey, StorageGet(storage, index)).value}
        \cup {DecryptResult(encryptionKey,
                            <<Encrypt(r.key, "iv_a", DataString(r.data))>>).value :
                 r \in {x \in returned : x.block.index = index}}
PrefixIndices(n) == {chain[j].index : j \in 2..n}
\* The payload stores one replay can read: one content for each index.
PayloadStores(n) ==
    {m \in [PrefixIndices(n) -> UNION {ContentsWritten(k) : k \in PrefixIndices(n)}] :
        \A k \in PrefixIndices(n) : m[k] \in ContentsWritten(k)}
\* The replay loop of getAllItems run without interruption over the first n
\* blocks of the chain.
RECURSIVE ReplayOfPrefix(_, _)
ReplayOfPrefix(n, m) ==
    IF n <= 1 THEN EmptyReplay
    ELSE Replay(ReplayOfPrefix(n - 1, m), chain[n], m[chain[n].index])

\* C30: the result of a getAllItems call that overlapped appends is the
\* replay of some prefix of the chain that holds at least the blocks present
\* when the call started, each index read with one payload and the lock and
\* deletion flags computed from that same prefix.
C30_ConsistentView ==
    GetAllItemsReturned =>
        \E n \in event.started..Len(chain) : \E m \in PayloadStores(n) :
            event.value = Materialize(ReplayOfPrefix(n, m))


\* C31: every step of getAllItems and of decrypt leaves the chain, the payload
\* store and the key as they were, and every getAllItems call starts its
\* replay with no items, no locks and no deletions, whatever earlier calls
\* computed.
C31_PureReads ==
    [][event'.op \in {"decrypt", "getAllItems"}
          => /\ chain' = chain /\ storage' = storage /\ encryptionKey' = encryptionKey
             /\ (event'.op = "getAllItems" /\ event'.called)
                   => IF event'.ev = "return"
                      THEN event'.st = [rawItems |-> <<>>, locks |-> {}, deletions |-> {}]
                      ELSE \E c \in Slots :
                              /\ calls[c] = Idle /\ calls'[c].op = "getAllItems"
                              /\ calls'[c].st =
                                     [rawItems |-> <<>>, locks |-> {}, deletions |-> {}]]_vars

\* A getAllItems call has just started while another one, suspended in its
\* loop, holds a replay with an item in it.
C31_Witness ==
    /\ event.op = "getAllItems" /\ event.called /\ event.ev = "suspend"
    /\ \E c, d \in Slots :
          /\ c # d
          /\ calls[c].op = "getAllItems" /\ calls[c].st.rawItems = <<>>
          /\ calls[d].op = "getAllItems" /\ calls[d].st.rawItems # <<>>
    /\ storage # <<>> /\ encryptionKey # NoKey

\* C32: whenever the key is established the chain is non-empty, its first
\* block is the genesis block with index 0 and no other block has index 0;
\* an initialize that returns on a non-empty chain, repeated or overlapping
\* another initialize, leaves every block and every payload as it was.
C32_GenesisPresent ==
    [][/\ encryptionKey' # NoKey
            => /\ Len(chain') >= 1
               /\ chain'[1].index = 0
               /\ chain'[1].dataHash = RawChars("GENESIS_BLOCK")
               /\ \A j \in 2..Len(chain') :
                      chain'[j].index # 0 /\ chain'[j].dataHash # RawChars("GENESIS_BLOCK")
       /\ (event'.op = "initialize" /\ Len(chain) >= 1)
            => chain' = chain /\ storage' = storage]_vars

\* An initialize has returned on a chain that already held the genesis
\* block and an appended block with its payload.
C32_Witness ==
    /\ event.op = "initialize" /\ event.ev = "return"
    /\ Len(chain) >= 2 /\ chain[1].index = 0
    /\ storage # <<>>

\* C33: in every state, also while appends interleave, every block of the
\* chain with index > 0 has an encrypted payload stored under its index.
C33_PayloadBeforeBlock ==
    \A j \in 1..Len(chain) :
        chain[j].index > 0
            => /\ chain[j].index \in DOMAIN storage
               /\ storage[chain[j].index].key # NoKey
               /\ storage[chain[j].index].iv \in IVs

\* An append has pushed its block while another append, started before the
\* push, is still suspended.
C33_Witness ==
    /\ event.op = "append" /\ event.ev = "return"
    /\ Len(chain) >= 2
    /\ \E c \in Slots : calls[c].op = "append" /\ calls[c].prevBlock.index = 0
    /\ event.block.index \in DOMAIN storage

\* The locks a replay of the whole chain computes from the payloads stored
\* now.
StoredContents ==
    [k \in PrefixIndices(Len(chain)) |->
        DecryptResult(encryptionKey, StorageGet(storage, k)).value]
LockedInLedger == ReplayOfPrefix(Len(chain), StoredContents).locks

\* C34: no step of StorageBrowser.handleDelete calls deleteItem for an item
\* that is locked in the ledger when the step is taken, also while the item
\* list shown is the one loaded before the lock.
C34_LockedNeverDeleted ==
    [][event'.op = "handleDelete"
          => \A id \in LockedInLedger :
                 /\ event'.issued # <<id>>
                 /\ \A c \in Slots :
                        (calls'[c] # calls[c] /\ calls'[c].op = "append")
                            => calls'[c].data # TombstoneRecord(id, "admin_user", now)]_vars

\* The record handleLogout("SESSION_TIMEOUT") hands to addLog.
TimeoutRecordAppended ==
    \E r \in returned :
        /\ HasField(r.data, "description")
        /\ r.data.f.description = <<"Session terminated: ", "SESSION_TIMEOUT">>
SessionTimeInRange == app.sessionTime \in 0..SESSION_TIMEOUT
\* What one step may do to the countdown.
CountdownSteps ==
    [][/\ (app'.view # app.view /\ app'.view \in AuthenticatedViews)
            => app'.sessionTime = SESSION_TIMEOUT
       /\ (event'.op = "sessionTimer" /\ ~event'.timeout)
            => app'.sessionTime = app.sessionTime - 1 /\ app'.view = app.view
       /\ (event'.op = "sessionTimer" /\ event'.timeout)
            => /\ app.sessionTime <= 1 /\ app'.sessionTime = 0
               /\ app'.view = "LOGIN"
               /\ \E c \in Slots :
                      /\ calls[c] = Idle /\ calls'[c].op = "append"
                      /\ calls'[c].data.f.description =
                             <<"Session terminated: ", "SESSION_TIMEOUT">>]_vars

\* C35 as stated: whenever an authenticated view is shown the view
\* eventually becomes LOGIN, with sessionTime kept within 0..SESSION_TIMEOUT,
\* counted down by the timer, restarted on every change between
\* authenticated views, and the SESSION_TIMEOUT record appended on expiry.
C35_SessionAlwaysEnds ==
    /\ []SessionTimeInRange
    /\ CountdownSteps
    /\ (app.view \in AuthenticatedViews) ~> (app.view = "LOGIN")
    /\ (event.op = "sessionTimer" /\ event.timeout) ~> TimeoutRecordAppended

\* C35 amended: whenever an authenticated view is shown, either the view
\* changes or the session ends: no authenticated view stays shown for ever;
\* sessionTime stays within 0..SESSION_TIMEOUT, is counted down by the timer
\* and restarted on every change between authenticated views, and the
\* SESSION_TIMEOUT record is appended on expiry.
C35_IdleSessionEnds ==
    /\ []SessionTimeInRange
    /\ CountdownSteps
    /\ \A view \in AuthenticatedViews : (app.view = view) ~> (app.view # view)
    /\ (event.op = "sessionTimer" /\ event.timeout) ~> TimeoutRecordAppended

\* The countdown has expired in a session in which the vault was opened: the
\* view is LOGIN and the record of the timeout is in the chain.
C35_Witness ==
    /\ app.view = "LOGIN" /\ app.sessionTime = 0
    /\ TimeoutRecordAppended
    /\ \E r \in returned :
          /\ HasField(r.data, "description")
          /\ r.data.f.description = <<"Storage Vault unlocked via Master Key">>

\* C36: validate with the MASTER_KEY schema returns, without raising, for
\* every key that generateNewKey has produced.
C36_NewKeyAccepted ==
    (event.op = "validate" /\ event.context = "MASTER_KEY" /\ event.input \in NewKeys)
        => event.ev = "return"

TypeOK == Len(chain) <= BlockLimit
====
